---------------------------- MODULE Spec2Model ----------------------------
(***************************************************************************)
(* Model of the numeric core of crowe_copilot: the dose-response model     *)
(* selector (dose_response.py), the banded-LSH candidate generator and the *)
(* similarity edges built on it (spectra_lsh.py, spectra_bridge.py), the   *)
(* ZIP bootstrap (zip_bootstrap.py) and the synergy reference models       *)
(* (mixtures.py).  Each part has its own specification over the shared     *)
(* variables; the variables of the other parts stay idle in it.            *)
(*                                                                         *)
(* Floating-point values are tagged pairs: <<"num", v>> is the finite      *)
(* value v, <<"nan", 0>> is NaN, <<"inf", 0>> is +infinity and             *)
(* <<"-inf", 0>> is -infinity.                                             *)
(***************************************************************************)
EXTENDS Integers, Sequences, FiniteSets, TLC

VARIABLES
    data,       \* the (conc_uM, resp) arrays handed to the fit, entry by entry
    solver4,    \* what scipy's curve_fit(four_pl, ...) does on this data
    solver5,    \* what scipy's curve_fit(five_pl, ...) does on this data
    fitPc,      \* "idle" before the call, "done" after it
    fitCall,    \* the call made: function and preference
    fitOut,     \* what the call returned or raised
    fitCalls,   \* the fit functions entered during the call, in order
    optCalls,   \* the curve_fit invocations made during the call, in order
    fitLog,     \* the logger records written during the call
    G,          \* the graph: its nodes with their attributes, in insertion order
    lshArgs,    \* the arguments of the candidate_pairs_lsh call
    genPc,      \* the generator: "none", "created", "suspended", "done" or "error"
    genErr,     \* the exception that ended the generator, "" if none
    resumes,    \* how many times the generator was resumed (next() calls)
    buckets,    \* the local buckets: a sequence of [key, specs] in first-use order
    bucketIdx,  \* the position of the bucket whose pairs are being yielded
    sigs,       \* the local sigs of the current bucket: spectrum id -> signature
    seen,       \* the local seen of the current bucket
    pending,    \* the pairs the loops of the current bucket have yet to yield
    sigCalls,   \* the spectrum ids build_signatures was called for, in order
    yielded,    \* the pairs yielded so far, in order
    edges,      \* the edges of the graph: one record per (source, target, key)
    edgeOp,     \* the last whole call made on the graph: function, tol_da, threshold
    edgeRet,    \* what that call returned: the integer, -1 if it raised
    edgeAdds,   \* the G.add_edge invocations of that call, in order
    edgesBefore,\* the edges of the graph when that call started
    edgeCalls,  \* how many whole calls were made on the graph
    bzData,     \* the (conc_a, conc_b, effect) arrays of bootstrap_zip, point by point
    bzGiven,    \* the arrays as the caller built them
    bzSolver,   \* what curve_fit(marginal_4pl, ...) does: "ok" or "fail"
    npGlobal,   \* the state of numpy's process-wide random generator
    bzArgs,     \* the n_boot and seed of the bootstrap_zip call under way
    bzPc,       \* "idle", "loop" while the call iterates, "done" after it returned,
                \* "direct" after fit_marginal was called on its own
    bzRng,      \* the state of the call's local rng
    bzIdx,      \* the idx arrays drawn so far, one per iteration
    bzScores,   \* the local scores list
    bzResult,   \* the dictionary returned
    bzEarlier,  \* the arguments and result of the call made before this one
    bzRuns,     \* how many calls of bootstrap_zip were started
    fmCall,     \* the concs and resps of a fit_marginal call made on its own
    fmOut,      \* what that call returned or raised
    sgIn,       \* the arguments of the build_signatures calls compared
    sgOuts,     \* what the calls with these arguments returned, in order
    sgBetween,  \* whether another build_signatures call was made since the last one
    sgAlt,      \* a call on the same peaks in another order, with other intensities
    mxCall,     \* the last call into mixtures.py: function and arguments
    mxOut,      \* what it returned
    mxPrev,     \* the call made before it and what that returned
    plCall,     \* the last four_pl call: x, top, bottom, ec50, hill
    plOut,      \* what it returned
    kgG,        \* the knowledge graph of kg.py: typed nodes and typed edges
    kgCall,     \* the last traversal call on it: function and arguments
    kgOut,      \* what it returned or raised
    csCall,     \* the last _cosine_similarity call: both spectra and the tolerance
    csMatched,  \* the (i, j) index pairs its matching loop recorded, in order
    csOut       \* the score it returned

fitVars == <<data, solver4, solver5, fitPc, fitCall, fitOut, fitCalls, optCalls, fitLog>>

lshVars == <<G, lshArgs, genPc, genErr, resumes, buckets, bucketIdx, sigs, seen, pending,
             sigCalls, yielded>>

edgeVars == <<edges, edgeOp, edgeRet, edgeAdds, edgesBefore, edgeCalls>>

bootVars == <<bzData, bzGiven, bzSolver, npGlobal, bzArgs, bzPc, bzRng, bzIdx, bzScores,
              bzResult, bzEarlier, bzRuns, fmCall, fmOut>>

sigVars == <<sgIn, sgOuts, sgBetween, sgAlt>>

mixVars == <<mxCall, mxOut, mxPrev>>

curveVars == <<plCall, plOut>>

kgVars == <<kgG, kgCall, kgOut>>

cosVars == <<csCall, csMatched, csOut>>

vars == <<fitVars, lshVars, edgeVars, bootVars, sigVars, mixVars, curveVars, kgVars, cosVars>>

-----------------------------------------------------------------------------
(* Floating-point values                                                   *)

Num(v) == <<"num", v>>
NaN == <<"nan", 0>>
PosInf == <<"inf", 0>>
NegInf == <<"-inf", 0>>

\* np.isfinite
IsFinite(f) == f[1] = "num"

\* x > 0 on a float: NaN compares false, +inf compares true
GtZero(f) == \/ f[1] = "inf"
             \/ f[1] = "num" /\ f[2] > 0

\* a < b on floats (IEEE: any comparison with NaN is false)
FLess(a, b) ==
    CASE a[1] = "nan" \/ b[1] = "nan" -> FALSE
      [] a[1] = "-inf" -> b[1] # "-inf"
      [] a[1] = "inf" -> FALSE
      [] b[1] = "-inf" -> FALSE
      [] b[1] = "inf" -> TRUE
      [] OTHER -> a[2] < b[2]

\* a + c for a float a and a finite c
FAddNum(a, c) == IF a[1] = "num" THEN Num(a[2] + c) ELSE a

\* n * a for a positive integer n
FScale(n, a) == IF a[1] = "num" THEN Num(n * a[2]) ELSE a

-----------------------------------------------------------------------------
(* Bounds and input sets of the dose-response model                        *)

MaxLen == 5

\* entries of the raw arrays: a usable point, a zero concentration, an
\* infinite concentration, a NaN response
Entries ==
    { [x |-> Num(1), y |-> Num(1)],
      [x |-> Num(0), y |-> Num(1)],
      [x |-> PosInf, y |-> Num(1)],
      [x |-> Num(1), y |-> NaN] }

RECURSIVE SeqsUpTo(_, _)
SeqsUpTo(S, n) ==
    IF n = 0 THEN { <<>> }
    ELSE LET shorter == SeqsUpTo(S, n - 1)
         IN  shorter \cup { Append(s, e) : s \in { t \in shorter : Len(t) = n - 1 }, e \in S }

\* R2 of a converged fit: <<"resid", m>> stands for 1 - R2 = exp(-m/5),
\* <<"one", 0>> for R2 = 1.0 (a fit through every point).
ResidLevels == {0, 3, 4, 5}
R2Values == { <<"resid", m>> : m \in ResidLevels } \cup { <<"one", 0>> }

\* curve_fit either raises or converges to parameters with some R2
SolverFail == <<"fail", <<"none", 0>>>>
SolverOutcomes == { SolverFail } \cup { <<"ok", r>> : r \in R2Values }

Preferences == {"4PL", "5PL", "auto"}

-----------------------------------------------------------------------------
(* dose_response.py                                                        *)

MinPoints4 == 4
MinPoints5 == 5

\* mask = np.isfinite(x) & np.isfinite(y) & (x > 0)
Mask(e) == IsFinite(e.x) /\ IsFinite(e.y) /\ GtZero(e.x)

\* x = x[mask]; y = y[mask]
Usable(d) == SelectSeq(d, Mask)

NoR2 == <<"none", 0>>

Returned(model, params, r2) ==
    [kind |-> "return", model |-> model, params |-> params, r2 |-> r2,
     exc |-> "", msg |-> "", min |-> 0, got |-> 0]

Raised(exc, msg, min, got) ==
    [kind |-> "raise", model |-> "", params |-> "", r2 |-> NoR2,
     exc |-> exc, msg |-> msg, min |-> min, got |-> got]

\* what a call did: its outcome, the fit functions it entered, the curve_fit
\* invocations it made and the log records it wrote
Effect(out, calls, opt, log) == [out |-> out, calls |-> calls, opt |-> opt, log |-> log]

\* e1 ran, then e2 ran: the outcome is e2's
Then(e1, e2) ==
    Effect(e2.out, e1.calls \o e2.calls, e1.opt \o e2.opt, e1.log \o e2.log)

\* the except branch of fit_4pl: log and re-raise
SolverFailed4Swallowed ==
    Effect(Returned("", "p0", <<"resid", 0>>), <<>>, <<"four_pl">>, <<"4PL fit failed">>)
SolverFailed4 ==
    Effect(Raised("RuntimeError", "solver", 0, 0), <<>>, <<"four_pl">>, <<"4PL fit failed">>)

\* the except branch of fit_5pl: log and re-raise
SolverFailed5 ==
    Effect(Raised("RuntimeError", "solver", 0, 0), <<>>, <<"five_pl">>, <<"5PL fit failed">>)

TooFew4OffByOne(n) == n <= MinPoints4
TooFew4(n) == n < MinPoints4

TooFew5(n) == n < MinPoints5

fit_4pl(d, s4) ==
    LET x == Usable(d)
        body ==
            IF TooFew4(Len(x))
            THEN Effect(Raised("ValueError", "Need at least 4 data points", MinPoints4, Len(x)),
                        <<>>, <<>>, <<>>)
            ELSE IF s4[1] = "fail"
            THEN SolverFailed4
            ELSE Effect(Returned("", "popt4", s4[2]), <<>>, <<"four_pl">>, <<>>)
    IN  Then(Effect(body.out, <<"fit_4pl">>, <<>>, <<>>), body)

fit_5pl(d, s4, s5) ==
    LET x == Usable(d)
        enter == Effect(Returned("", "", NoR2), <<"fit_5pl">>, <<>>, <<>>)
    IN  IF TooFew5(Len(x))
        THEN Then(enter,
                  Effect(Raised("ValueError", "Need at least 5 data points for 5PL",
                                MinPoints5, Len(x)), <<>>, <<>>, <<>>))
        ELSE LET p4 == fit_4pl(x, s4)
             IN  IF p4.out.kind = "raise"
                 THEN Then(enter, p4)
                 ELSE IF s5[1] = "fail"
                 THEN Then(Then(enter, p4), SolverFailed5)
                 ELSE Then(Then(enter, p4),
                           Effect(Returned("", "popt5", s5[2]), <<>>, <<"five_pl">>, <<>>))

\* np.log(1 - r2), in fifths
LogOneMinus(r2) == IF r2[1] = "one" THEN NegInf ELSE Num(-r2[2])

\* aic = n * np.log(1 - r2) + 2 * k, in fifths
Aic(n, r2, k) == FAddNum(FScale(n, LogOneMinus(r2)), 5 * 2 * k)

\* if aic5 < aic4 - 2
Select5PLNoMargin(aic4, aic5) == FLess(aic5, aic4)
Select5PL(aic4, aic5) == FLess(aic5, FAddNum(aic4, -(5 * 2)))

\* if prefer == "4PL" or len(conc_uM) < 5
ForceFourPL(d, prefer) == prefer = "4PL" \/ Len(d) < 5

\* a fit result handed back under a model name
Named(model, e) ==
    IF e.out.kind = "raise" THEN e
    ELSE Effect(Returned(model, e.out.params, e.out.r2), e.calls, e.opt, e.log)

\* except Exception as e: log a warning, fit 4PL again and return it
AutoExceptPropagates(d, s4, tried) == tried
AutoExcept(d, s4, tried) ==
    Named("4PL",
          Then(Then(tried, Effect(tried.out, <<>>, <<>>, <<"Auto-fit defaulting to 4PL">>)),
               fit_4pl(d, s4)))

auto_fit(d, prefer, s4, s5) ==
    IF ForceFourPL(d, prefer) THEN Named("4PL", fit_4pl(d, s4))
    ELSE IF prefer = "5PL" THEN Named("5PL", fit_5pl(d, s4, s5))
    ELSE LET e4 == fit_4pl(d, s4)
         IN  IF e4.out.kind = "raise" THEN AutoExcept(d, s4, e4)
             ELSE LET e5 == fit_5pl(d, s4, s5)
                      both == Then(e4, e5)
                  IN  IF e5.out.kind = "raise" THEN AutoExcept(d, s4, both)
                      ELSE LET n == Len(d)
                               aic4 == Aic(n, e4.out.r2, 4)
                               aic5 == Aic(n, e5.out.r2, 5)
                           IN  IF Select5PL(aic4, aic5)
                               THEN Effect(Returned("5PL", e5.out.params, e5.out.r2),
                                           both.calls, both.opt, both.log)
                               ELSE Effect(Returned("4PL", e4.out.params, e4.out.r2),
                                           both.calls, both.opt, both.log)

-----------------------------------------------------------------------------
(* Unsigned 64-bit values, held as three limbs <<high, middle, low>> of 21 *)
(* bits (22 for the high one): the signatures are uint64 arrays.           *)

LimbBase == 2^21

\* astype(np.uint64) of a value in 0 .. 2^31 - 1
U64(v) == <<0, v \div LimbBase, v % LimbBase>>

\* np.uint64((1 << 63) - 1)
Sentinel64 == <<LimbBase - 1, LimbBase - 1, LimbBase - 1>>

U64Less(a, b) ==
    \/ a[1] < b[1]
    \/ a[1] = b[1] /\ a[2] < b[2]
    \/ a[1] = b[1] /\ a[2] = b[2] /\ a[3] < b[3]

\* np.minimum on two components
U64Min(a, b) == IF U64Less(b, a) THEN b ELSE a

-----------------------------------------------------------------------------
(* Arithmetic modulo the hashing prime, kept within 32-bit integers        *)

Prime == 2147483647

\* (x + y) % Prime for x, y in 0 .. Prime - 1
AddMod(x, y) == IF x >= Prime - y THEN x - (Prime - y) ELSE x + y

\* (a * t) % Prime for a in 0 .. Prime - 1 and t >= 0
RECURSIVE MulMod(_, _)
MulMod(a, t) ==
    IF t = 0 THEN 0
    ELSE LET h == MulMod(a, t \div 2)
             d == AddMod(h, h)
         IN  IF t % 2 = 1 THEN AddMod(d, a) ELSE d

-----------------------------------------------------------------------------
(* np.random.RandomState(seed): a deterministic stream of draws fixed by   *)
(* the seed. The Lehmer generator x -> 48271 * x mod (2^31 - 1) stands in  *)
(* for numpy's Mersenne Twister; its draws lie in 1 .. 2^31 - 2, the range *)
(* of rng.randint(1, 2**31 - 1).                                           *)

\* the seeds of the calls (7 is the default of the code)
Seeds == {7}

\* the seeds other code may give numpy's process-wide generator
GlobalSeeds == {42, 99}

\* the seeds of the build_signatures calls made on their own
SigSeeds == {7, 42}

RECURSIVE Stream(_, _)
Stream(seed, n) ==
    IF n = 0 THEN <<>>
    ELSE LET before == Stream(seed, n - 1)
             last == IF n = 1 THEN seed ELSE before[n - 1]
         IN  Append(before, MulMod(last, 48271))

\* the first 8 draws: n_perm draws for a, then n_perm for b, n_perm up to 4
RandomState == [seed \in Seeds \cup SigSeeds \cup GlobalSeeds |-> Stream(seed, 8)]

-----------------------------------------------------------------------------
(* spectra_lsh.py: build_signatures. m/z values and round_da are held in   *)
(* hundredths of a Da.                                                     *)

\* np.round(n / d): round half to even, d > 0
RoundHalfEven(n, d) ==
    LET q == n \div d
        r == n % d
    IN  IF 2 * r < d THEN q
        ELSE IF 2 * r > d THEN q + 1
        ELSE IF q % 2 = 0 THEN q ELSE q + 1

\* np.argsort(peaks_int)[::-1][:top_k]: the positions of the top_k largest
\* intensities, a later position first among equal intensities
RECURSIVE TopIdx(_, _, _)
TopIdx(it, left, k) ==
    IF k = 0 \/ left = {} THEN <<>>
    ELSE LET best == CHOOSE i \in left :
                        \A j \in left : it[j] < it[i] \/ (it[j] = it[i] /\ j <= i)
         IN  <<best>> \o TopIdx(it, left \ {best}, k - 1)

\* toks = np.unique(np.round(peaks_mz[idx] / round_da).astype(np.int64))
TokensOfAllPeaks(peaks_mz, peaks_int, top_k, round_da) ==
    { RoundHalfEven(peaks_mz[i], round_da) : i \in DOMAIN peaks_mz }
Tokens(peaks_mz, peaks_int, top_k, round_da) ==
    LET idx == TopIdx(peaks_int, DOMAIN peaks_int, top_k)
    IN  { RoundHalfEven(peaks_mz[idx[i]], round_da) : i \in DOMAIN idx }

\* (a * t + b) % prime
HashVal(a, b, t) == AddMod(MulMod(a, t % Prime), b)

\* the minimum of the sentinel and of the hash values of the tokens
RECURSIVE MinHash(_, _, _)
MinHash(a, b, toks) ==
    IF toks = {} THEN Sentinel64
    ELSE LET t == CHOOSE u \in toks : TRUE
         IN  U64Min(MinHash(a, b, toks \ {t}), U64(HashVal(a, b, t)))

build_signatures(peaks_mz, peaks_int, top_k, round_da, n_perm, seed) ==
    IF Len(peaks_mz) = 0
    THEN [i \in 1..n_perm |-> Sentinel64]
    ELSE LET toks == Tokens(peaks_mz, peaks_int, top_k, round_da)
             a == [i \in 1..n_perm |-> RandomState[seed][i]]
             b == [i \in 1..n_perm |-> RandomState[seed][n_perm + i]]
         IN  [i \in 1..n_perm |-> MinHash(a[i], b[i], toks)]

\* rng = np.random.RandomState(seed): the seed the hashing parameters are
\* drawn from, whatever the state of the process-wide generator
SigSeedGlobal(seed, global) == global
SigSeed(seed, global) == seed

-----------------------------------------------------------------------------
(* Bounds and input sets of the LSH model                                  *)

MaxSpectra == 3

\* peak lists: m/z in hundredths of a Da with the intensities beside them.
\* PeaksA and PeaksB share the token 1005 (100.5 Da) and differ in the other.
PeaksA == [mz |-> <<10025, 10050>>, it |-> <<50, 90>>]
PeaksB == [mz |-> <<10046, 20015>>, it |-> <<80, 40>>]
PeaksEmpty == [mz |-> <<>>, it |-> <<>>]

\* a graph node and the attributes candidate_pairs_lsh reads; has_peaks is
\* FALSE when attrs.get("peaks_mz") or attrs.get("peaks_int") is None
Node(ntype, ionmode, precursor_mz, has_peaks, peaks) ==
    [ntype |-> ntype, sid |-> 0, ionmode |-> ionmode, precursor_mz |-> precursor_mz,
     has_peaks |-> has_peaks, peaks_mz |-> peaks.mz, peaks_int |-> peaks.it]

\* precursor m/z in hundredths of a Da: 100.40, 100.90 and 101.20
NodeChoices ==
    { Node("spectrum", "positive", 10040, TRUE, PeaksA),
      Node("spectrum", "positive", 10090, TRUE, PeaksB),
      Node("spectrum", "positive", 10120, TRUE, PeaksA),
      Node("spectrum", "", 10040, TRUE, PeaksA),
      Node("spectrum", "positive", 10040, TRUE, PeaksEmpty),
      Node("spectrum", "positive", 10040, FALSE, PeaksEmpty),
      Node("compound", "", 0, FALSE, PeaksEmpty) }

\* the graphs: up to MaxSpectra nodes with distinct ids, inserted in
\* ascending or in descending order of their ids
Graphs ==
    UNION { { [i \in 1..n |-> [kinds[i] EXCEPT !.sid = IF asc THEN i ELSE n + 1 - i]] :
                kinds \in [1..n -> NodeChoices], asc \in BOOLEAN } :
            n \in 0..MaxSpectra }

\* the calls: bucket_da and round_da in hundredths of a Da. Four consistent
\* bandings (two bands of two, two of one, one of two, and a 2 Da bucket
\* with top_k = 1) and two inconsistent ones (product above and below n_perm)
LshArgs(nb, bs, np, width, k, sd) ==
    [n_bands |-> nb, band_size |-> bs, n_perm |-> np, bucket_da |-> width, top_k |-> k,
     round_da |-> 10, seed |-> sd]

LshArgChoices ==
    UNION { { LshArgs(2, 2, 4, 100, 2, sd),
              LshArgs(2, 1, 2, 100, 2, sd),
              LshArgs(1, 2, 2, 100, 2, sd),
              LshArgs(2, 2, 4, 200, 1, sd),
              LshArgs(2, 2, 2, 100, 2, sd),
              LshArgs(1, 2, 4, 200, 1, sd) } : sd \in Seeds }

-----------------------------------------------------------------------------
(* spectra_lsh.py: _bucket_key and candidate_pairs_lsh                     *)

\* assert n_bands * band_size == n_perm
ConfigOkAlways(args) == TRUE
ConfigOk(args) == args.n_bands * args.band_size = args.n_perm

\* b = int(np.floor(precursor_mz / width_da)); return (ionmode or "unknown", b)
bucket_key_ignoring_mode(precursor_mz, ionmode, width_da) ==
    <<"unknown", precursor_mz \div width_da>>
bucket_key(precursor_mz, ionmode, width_da) ==
    <<IF ionmode = "" THEN "unknown" ELSE ionmode, precursor_mz \div width_da>>

\* the nodes the first loop does not skip: spectrum nodes whose peak arrays
\* are present and not empty
EligibleWithEmpty(n) == n.ntype = "spectrum" /\ n.has_peaks
Eligible(n) == n.ntype = "spectrum" /\ n.has_peaks /\ Len(n.peaks_mz) # 0

\* the node of a spectrum id
SpecNode(g, sid) == g[CHOOSE i \in DOMAIN g : g[i].ntype = "spectrum" /\ g[i].sid = sid]

\* buckets[key].append(...), keys kept in first-use order
AddToBucket(bs, key, sid) ==
    IF \E k \in DOMAIN bs : bs[k].key = key
    THEN [k \in DOMAIN bs |->
            IF bs[k].key = key THEN [bs[k] EXCEPT !.specs = Append(@, sid)] ELSE bs[k]]
    ELSE Append(bs, [key |-> key, specs |-> <<sid>>])

\* the first loop over G.nodes(data=True), up to node i
RECURSIVE BucketsUpTo(_, _, _)
BucketsUpTo(g, args, i) ==
    IF i = 0 THEN <<>>
    ELSE LET before == BucketsUpTo(g, args, i - 1)
             n == g[i]
         IN  IF Eligible(n)
             THEN AddToBucket(before,
                              bucket_key(n.precursor_mz, n.ionmode, args.bucket_da),
                              n.sid)
             ELSE before

BucketsOf(g, args) == BucketsUpTo(g, args, Len(g))

\* if len(specs) < 2: continue
SkipBucketBelow3(specs) == Len(specs) < 3
SkipBucket(specs) == Len(specs) < 2

\* build_signatures tabulated over the peak lists and arguments of the model
\* (the function is pure: the table holds each result, computed once)
SignatureTable ==
    [x \in { <<n.peaks_mz, n.peaks_int, a.top_k, a.round_da, a.n_perm, a.seed>> :
                n \in NodeChoices, a \in LshArgChoices } |->
        build_signatures(x[1], x[2], x[3], x[4], x[5], x[6])]

\* the signature of a node under the arguments of a call
NodeSignature(n, args) ==
    SignatureTable[<<n.peaks_mz, n.peaks_int, args.top_k, args.round_da, args.n_perm,
                     args.seed>>]

\* sigs[sid] = build_signatures(mz, it, ...) for every spectrum of the bucket
BucketSigs(g, args, specs) ==
    [sid \in { specs[i] : i \in DOMAIN specs } |-> NodeSignature(SpecNode(g, sid), args)]

\* tuple(sig[start:start+band_size]) with start = b * band_size, b from 0
BandTuple(sig, b, band_size) ==
    LET start == b * band_size
        stop == IF start + band_size < Len(sig) THEN start + band_size ELSE Len(sig)
    IN  [i \in 1..(IF stop > start THEN stop - start ELSE 0) |-> sig[start + i]]

\* band_maps[b][band].append(sid), bands kept in first-use order
RECURSIVE BandMap(_, _, _, _, _)
BandMap(specs, sg, b, band_size, i) ==
    IF i = 0 THEN <<>>
    ELSE LET before == BandMap(specs, sg, b, band_size, i - 1)
             band == BandTuple(sg[specs[i]], b, band_size)
         IN  IF \E k \in DOMAIN before : before[k].band = band
             THEN [k \in DOMAIN before |->
                     IF before[k].band = band
                     THEN [before[k] EXCEPT !.members = Append(@, specs[i])]
                     ELSE before[k]]
             ELSE Append(before, [band |-> band, members |-> <<specs[i]>>])

\* sorted(set(members))
SortedSet(members) ==
    LET set == { members[i] : i \in DOMAIN members }
    IN  [i \in 1..Cardinality(set) |->
            CHOOSE x \in set : Cardinality({ y \in set : y < x }) = i - 1]

\* the pairs (members[i], members[j]) with i < j, in loop order
RECURSIVE PairsFrom(_, _, _)
PairsFrom(m, i, j) ==
    IF i > Len(m) THEN <<>>
    ELSE IF j > Len(m) THEN PairsFrom(m, i + 1, i + 2)
    ELSE <<<<m[i], m[j]>>>> \o PairsFrom(m, i, j + 1)

\* the pairs one band map proposes, group after group
RECURSIVE GroupPairs(_, _)
GroupPairs(bm, k) ==
    IF k > Len(bm) THEN <<>>
    ELSE (IF Len(bm[k].members) < 2 THEN <<>>
          ELSE PairsFrom(SortedSet(bm[k].members), 1, 2))
         \o GroupPairs(bm, k + 1)

\* the pairs all band maps propose, band after band
RECURSIVE Proposed(_, _, _, _)
Proposed(specs, sg, args, b) ==
    IF b >= args.n_bands THEN <<>>
    ELSE GroupPairs(BandMap(specs, sg, b, args.band_size, Len(specs)), 1)
         \o Proposed(specs, sg, args, b + 1)

\* if pair not in seen
UnseenAlways(pair, sn) == TRUE
Unseen(pair, sn) == pair \notin sn

\* the proposed pairs that get yielded: seen.add(pair); yield pair
RECURSIVE YieldsOf(_, _)
YieldsOf(props, sn) ==
    IF props = <<>> THEN <<>>
    ELSE IF Unseen(Head(props), sn)
         THEN <<Head(props)>> \o YieldsOf(Tail(props), sn \cup {Head(props)})
         ELSE YieldsOf(Tail(props), sn)

\* everything one bucket yields
BucketYields(g, args, specs) ==
    YieldsOf(Proposed(specs, BucketSigs(g, args, specs), args, 0), {})

-----------------------------------------------------------------------------
(* spectra_bridge.py: _cosine_similarity, and add_similarity_edges_lsh     *)

\* how many whole calls are made on one graph
MaxEdgeCalls == 2

RECURSIVE Gcd(_, _)
Gcd(a, b) == IF b = 0 THEN a ELSE Gcd(b, a % b)

RECURSIVE GcdUpTo(_, _)
GcdUpTo(v, i) == IF i = 0 THEN 0 ELSE Gcd(GcdUpTo(v, i - 1), v[i])

\* the direction of an intensity vector: int / np.linalg.norm(int) is the
\* same vector for int and for int divided by the greatest common divisor
\* of its components, which keeps the integers small
Direction(v) ==
    LET g == GcdUpTo(v, Len(v))
    IN  IF g = 0 THEN v ELSE [i \in DOMAIN v |-> v[i] \div g]

RECURSIVE SumSq(_, _)
SumSq(v, i) == IF i = 0 THEN 0 ELSE SumSq(v, i - 1) + v[i] * v[i]

Dist(m1, m2) == IF m1 >= m2 THEN m1 - m2 ELSE m2 - m1

\* the inner loop over mz2: min_dist starts at tol, an unused peak with
\* dist <= min_dist replaces the best one, so the closest unused peak within
\* tol wins and of two equally close ones the later; 0 when best_j = -1
BestMatchFirstWithinTol(m1, mz2, used, tol) ==
    LET near == { j \in DOMAIN mz2 : j \notin used /\ Dist(m1, mz2[j]) <= tol }
    IN  IF near = {} THEN 0 ELSE CHOOSE j \in near : \A k \in near : j <= k
BestMatch(m1, mz2, used, tol) ==
    LET near == { j \in DOMAIN mz2 : j \notin used /\ Dist(m1, mz2[j]) <= tol }
    IN  IF near = {} THEN 0
        ELSE CHOOSE j \in near :
                \A k \in near :
                    \/ Dist(m1, mz2[j]) < Dist(m1, mz2[k])
                    \/ Dist(m1, mz2[j]) = Dist(m1, mz2[k]) /\ j >= k

\* the outer loop over mz1 up to peak i: the matches <<i, best_j>> made and
\* the peaks of mz2 they used
RECURSIVE Matches(_, _, _, _)
Matches(mz1, mz2, tol, i) ==
    IF i = 0 THEN [pairs |-> <<>>, used |-> {}]
    ELSE LET before == Matches(mz1, mz2, tol, i - 1)
             j == BestMatch(mz1[i], mz2, before.used, tol)
         IN  IF j = 0 THEN before
             ELSE [pairs |-> Append(before.pairs, <<i, j>>), used |-> before.used \cup {j}]

RECURSIVE SumProducts(_, _, _, _)
SumProducts(pairs, v1, v2, k) ==
    IF k = 0 THEN 0
    ELSE SumProducts(pairs, v1, v2, k - 1) + v1[pairs[k][1]] * v2[pairs[k][2]]

\* a score: the value n / sqrt(d2), or NaN
Score(n, d2) == [kind |-> "num", n |-> n, d2 |-> d2]
ScoreNaN == [kind |-> "nan", n |-> 0, d2 |-> 0]

\* _cosine_similarity(mz1, int1, mz2, int2, tol): 0.0 for an empty spectrum,
\* else the sum over the matched peaks of int1_norm[i] * int2_norm[best_j];
\* a zero norm makes every normalised intensity NaN (0/0)
cosine_similarity(mz1, int1, mz2, int2, tol) ==
    IF Len(mz1) = 0 \/ Len(mz2) = 0 THEN Score(0, 1)
    ELSE LET v1 == Direction(int1)
             v2 == Direction(int2)
             d2 == SumSq(v1, Len(v1)) * SumSq(v2, Len(v2))
             m == Matches(mz1, mz2, tol, Len(mz1)).pairs
         IN  IF m = <<>> THEN Score(0, 1)
             ELSE IF d2 = 0 THEN ScoreNaN
             ELSE Score(SumProducts(m, v1, v2, Len(m)), d2)

\* if score >= threshold, the threshold in hundredths: n / sqrt(d2) >=
\* thr / 100 with n >= 0; a comparison with NaN is False
MeetsAlways(score, thr) == TRUE
Meets(score, thr) ==
    /\ score.kind = "num"
    /\ score.n * score.n * 10000 >= thr * thr * score.d2

\* the pairs a whole run of candidate_pairs_lsh yields, from bucket k on
RECURSIVE YieldsFrom(_, _, _, _)
YieldsFrom(g, args, bs, k) ==
    IF k > Len(bs) THEN <<>>
    ELSE (IF SkipBucket(bs[k].specs) THEN <<>> ELSE BucketYields(g, args, bs[k].specs))
         \o YieldsFrom(g, args, bs, k + 1)

\* list(candidate_pairs_lsh(G, **args)): the pairs, or the assertion error
candidate_pairs_lsh(g, args) ==
    IF ~ConfigOk(args) THEN [err |-> "AssertionError", pairs |-> <<>>]
    ELSE [err |-> "", pairs |-> YieldsFrom(g, args, BucketsOf(g, args), 1)]

\* the key of a node in the graph: ("spectrum", sid) for a spectrum
NodeKey(n) == <<n.ntype, n.sid>>

\* networkx add_edge creates an end node the graph does not hold yet, with no
\* attributes, and leaves a node it holds as it is
EnsureNodeReset(nodes, key) ==
    [i \in DOMAIN nodes |->
        IF NodeKey(nodes[i]) = key
        THEN [nodes[i] EXCEPT !.has_peaks = FALSE, !.peaks_mz = <<>>, !.peaks_int = <<>>]
        ELSE nodes[i]]
EnsureNode(nodes, key) ==
    IF \E i \in DOMAIN nodes : NodeKey(nodes[i]) = key THEN nodes
    ELSE Append(nodes, [ntype |-> key[1], sid |-> key[2], ionmode |-> "",
                        precursor_mz |-> 0, has_peaks |-> FALSE,
                        peaks_mz |-> <<>>, peaks_int |-> <<>>])

\* G.add_edge(a, b, key="SIMILAR_LSH", etype="SIMILAR", weight=float(score),
\* evidence={..., "tol_da": tol_da}) on a MultiDiGraph: an edge (a, b) with
\* that key is created if there is none, else its attributes are updated
SimilarEdge(a, b, score, tol) ==
    [src |-> a, dst |-> b, key |-> "SIMILAR_LSH", etype |-> "SIMILAR",
     weight |-> score, tol_da |-> tol]

add_edge_parallel(gr, e) ==
    [nodes |-> EnsureNode(EnsureNode(gr.nodes, e.src), e.dst),
     edges |-> gr.edges \cup
                { IF \E x \in gr.edges : x.src = e.src /\ x.dst = e.dst /\ x.key = e.key
                  THEN [e EXCEPT !.key = "1"] ELSE e }]
add_edge(gr, e) ==
    [nodes |-> EnsureNode(EnsureNode(gr.nodes, e.src), e.dst),
     edges |-> { x \in gr.edges : ~(x.src = e.src /\ x.dst = e.dst /\ x.key = e.key) }
                \cup {e}]

\* the loop of add_similarity_edges_lsh over the first k candidate pairs
RECURSIVE EdgeLoop(_, _, _, _, _)
EdgeLoop(gr, pairs, tol, thr, k) ==
    IF k = 0 THEN [gr |-> gr, added |-> 0, adds |-> <<>>]
    ELSE LET before == EdgeLoop(gr, pairs, tol, thr, k - 1)
             a == <<"spectrum", pairs[k][1]>>
             b == <<"spectrum", pairs[k][2]>>
             attrs1 == SpecNode(before.gr.nodes, pairs[k][1])
             attrs2 == SpecNode(before.gr.nodes, pairs[k][2])
             score == cosine_similarity(attrs1.peaks_mz, attrs1.peaks_int,
                                        attrs2.peaks_mz, attrs2.peaks_int, tol)
         IN  IF Meets(score, thr)
             THEN [gr |-> add_edge(before.gr, SimilarEdge(a, b, score, tol)),
                   added |-> before.added + 1,
                   adds |-> Append(before.adds, SimilarEdge(a, b, score, tol))]
             ELSE before

\* add_similarity_edges_lsh(G, tol_da, threshold, **lsh_kwargs): the graph
\* after the call, the integer returned (-1 when the generator raised), the
\* add_edge invocations and the pairs the generator yielded
add_similarity_edges_lsh(gr, tol, thr, args) ==
    LET cand == candidate_pairs_lsh(gr.nodes, args)
    IN  IF cand.err # ""
        THEN [gr |-> gr, ret |-> -1, adds |-> <<>>, err |-> cand.err, pairs |-> <<>>]
        ELSE LET r == EdgeLoop(gr, cand.pairs, tol, thr, Len(cand.pairs))
             IN  [gr |-> r.gr, ret |-> r.added, adds |-> r.adds, err |-> "",
                  pairs |-> cand.pairs]

\* the calls of add_similarity_edges_lsh: tol_da in hundredths of a Da,
\* threshold in hundredths. The default-like call, a wider tolerance, a wider
\* tolerance under a higher threshold, a banding of one band of two, and an
\* inconsistent banding
EdgeCall(args, tol, thr) == [args |-> args, tol_da |-> tol, threshold |-> thr]

EdgeCallChoices ==
    UNION { { EdgeCall(LshArgs(2, 2, 4, 100, 2, sd), 2, 75),
              EdgeCall(LshArgs(2, 2, 4, 100, 2, sd), 5, 75),
              EdgeCall(LshArgs(2, 2, 4, 100, 2, sd), 5, 80),
              EdgeCall(LshArgs(1, 2, 2, 100, 2, sd), 5, 75),
              EdgeCall(LshArgs(2, 2, 2, 100, 2, sd), 2, 75) } : sd \in Seeds }

-----------------------------------------------------------------------------
(* zip_bootstrap.py: fit_marginal, zip_synergy_surface and bootstrap_zip.  *)
(* Concentrations are integers, effects are in hundredths.  The fitted     *)
(* parameters and the mean of the deltas are held as terms over the data   *)
(* they are computed from.                                                 *)

MaxPoints == 6
MaxBoot == 2

\* a data point: a control, A alone, B alone and a combination
Point(ca, cb, eff) == [ca |-> ca, cb |-> cb, eff |-> eff]

PointKinds == <<Point(0, 0, 0), Point(10, 0, 50), Point(0, 10, 40), Point(10, 10, 80)>>

\* the input arrays: up to MaxPoints points, the controls first, then the
\* A-alone, the B-alone and the combination points
BootData ==
    UNION { { [i \in 1..n |-> PointKinds[k[i]]] :
                k \in { f \in [1..n -> DOMAIN PointKinds] :
                            \A i \in 1..(n - 1) : f[i] <= f[i + 1] } } :
            n \in 1..MaxPoints }

BootSeeds == {42, 43}

BootArgs == [n_boot : 1..MaxBoot, seed : BootSeeds]

\* rng = np.random.RandomState(seed): a generator of its own, whatever the
\* state of the process-wide one
RngOfGlobal(seed, global) == global
RngOf(seed, global) == seed

\* idx = rng.choice(n, n, replace=True): k draws, each an index into the n
\* points (from 1), and the state the rng is left in
RECURSIVE Choice(_, _, _)
Choice(state, n, k) ==
    IF k = 0 THEN [idx |-> <<>>, state |-> state]
    ELSE LET before == Choice(state, n, k - 1)
             next == MulMod(before.state, 48271)
         IN  [idx |-> Append(before.idx, (next % n) + 1), state |-> next]

\* conc_a[idx], conc_b[idx], effect[idx]: new arrays
Take(arr, idx) == [i \in DOMAIN idx |-> arr[idx[i]]]

\* mask_a = (c_b_b == 0); mask_b = (c_a_b == 0);
\* mask_combo = (c_a_b > 0) & (c_b_b > 0)
MaskA(pt) == pt.cb = 0
MaskB(pt) == pt.ca = 0
MaskComboEither(pt) == pt.ca > 0 \/ pt.cb > 0
MaskCombo(pt) == pt.ca > 0 /\ pt.cb > 0

\* if np.sum(mask) < 4
TooFewNever(count) == FALSE
TooFew(count) == count < 4

\* fit_marginal(concs, resps): the parameters curve_fit finds on these
\* points, or the initial guess p0 when curve_fit raises; never an error
fit_marginal(concs, resps, solver) ==
    IF solver = "ok" THEN <<"popt", concs, resps>> ELSE <<"p0", concs, resps>>

\* zip_synergy_surface(...)[0]: np.mean(effect - e_zip), e_zip from the
\* marginals p_a and p_b at the combination concentrations
zip_synergy_surface(combo, p_a, p_b) == <<"mean_delta", combo, p_a, p_b>>

ZeroScore == <<"num", 0>>

\* if np.sum(mask_combo) == 0
NoComboNever(count) == FALSE
NoCombo(count) == count = 0

\* the score one iteration appends for the resample rs
IterationScore(rs, solver) ==
    LET a == SelectSeq(rs, MaskA)
        b == SelectSeq(rs, MaskB)
        combo == SelectSeq(rs, MaskCombo)
    IN  IF TooFew(Len(a)) THEN ZeroScore
        ELSE IF TooFew(Len(b)) THEN ZeroScore
        ELSE IF NoCombo(Len(combo)) THEN ZeroScore
        ELSE zip_synergy_surface(
                combo,
                fit_marginal([i \in DOMAIN a |-> a[i].ca], [i \in DOMAIN a |-> a[i].eff], solver),
                fit_marginal([i \in DOMAIN b |-> b[i].cb], [i \in DOMAIN b |-> b[i].eff], solver))

\* the dictionary returned: mean, 2.5th and 97.5th percentile and standard
\* deviation of scores_arr
Aggregates(scores) ==
    [zip_mean |-> <<"mean", scores>>,
     zip_ci_low |-> <<"percentile", 25, scores>>,
     zip_ci_high |-> <<"percentile", 975, scores>>,
     zip_std |-> <<"std", scores>>]

-----------------------------------------------------------------------------
(* mixtures.py.  A float is a tagged fraction: <<"num", <<n, d>>>> is n/d  *)
(* in lowest terms with d > 0, and there are the three values +infinity,   *)
(* -infinity and NaN.                                                      *)

Abs(n) == IF n < 0 THEN -n ELSE n

Q(n, d) ==
    LET g == Gcd(Abs(n), Abs(d))
        sign == IF d < 0 THEN -1 ELSE 1
    IN  <<"num", <<sign * (n \div g), sign * (d \div g)>>>>

QInf == <<"inf", <<1, 0>>>>
QNegInf == <<"-inf", <<-1, 0>>>>
QNaN == <<"nan", <<0, 0>>>>

QIsNum(a) == a[1] = "num"
QIsZero(a) == a[1] = "num" /\ a[2][1] = 0

\* a < b (IEEE: any comparison with NaN is false)
QLess(a, b) ==
    CASE a[1] = "nan" \/ b[1] = "nan" -> FALSE
      [] a[1] = "-inf" -> b[1] # "-inf"
      [] a[1] = "inf" -> FALSE
      [] b[1] = "-inf" -> FALSE
      [] b[1] = "inf" -> TRUE
      [] OTHER -> a[2][1] * b[2][2] < b[2][1] * a[2][2]

\* abs(a)
QAbs(a) ==
    CASE a[1] = "num" -> Q(Abs(a[2][1]), a[2][2])
      [] a[1] = "-inf" -> QInf
      [] OTHER -> a

\* a + b, a - b, a * b and a / b on finite values, b # 0 in the division
QAdd(a, b) == Q(a[2][1] * b[2][2] + b[2][1] * a[2][2], a[2][2] * b[2][2])
QSub(a, b) == Q(a[2][1] * b[2][2] - b[2][1] * a[2][2], a[2][2] * b[2][2])
QMul(a, b) == Q(a[2][1] * b[2][1], a[2][2] * b[2][2])
QDiv(a, b) == Q(a[2][1] * b[2][2], a[2][2] * b[2][1])

\* a finite value divided by a dose that is finite and not 0, or +infinity
QOver(a, dose) == IF dose[1] = "inf" THEN Q(0, 1) ELSE QDiv(a, dose)

\* classify_synergy(mean_delta, threshold)
classify_synergy(mean_delta, threshold) ==
    IF QLess(QAbs(mean_delta), threshold) THEN "additive"
    ELSE IF QLess(Q(0, 1), mean_delta) THEN "synergy"
    ELSE "antagonism"

\* ec50 * (fa / (1 - fa)) if fa < 1 else np.inf
EquivalentDoseNoOdds(ec50, fa) ==
    IF QLess(fa, Q(1, 1)) THEN QMul(ec50, fa) ELSE QInf
EquivalentDose(ec50, fa) ==
    IF QLess(fa, Q(1, 1)) THEN QMul(ec50, QDiv(fa, QSub(Q(1, 1), fa))) ELSE QInf

\* combination_index_loewe(conc_a, conc_b, ec50_a, ec50_b, fa), all finite
combination_index_loewe(conc_a, conc_b, ec50_a, ec50_b, fa) ==
    LET da == EquivalentDose(ec50_a, fa)
        db == EquivalentDose(ec50_b, fa)
    IN  IF QIsZero(da) \/ QIsZero(db) THEN QInf
        ELSE QAdd(QOver(conc_a, da), QOver(conc_b, db))

\* effects are held in tenths, deltas in hundredths
\* bliss_independence(ea, eb) = ea + eb - ea * eb
bliss_sum_only(ea, eb) == 10 * ea + 10 * eb
bliss_independence(ea, eb) == 10 * ea + 10 * eb - ea * eb

\* hsa_reference(ea, eb) = max(ea, eb)
hsa_reference(ea, eb) == 10 * (IF ea >= eb THEN ea ELSE eb)

\* a / b for b # 0, on every float: NaN propagates, inf / inf is NaN, a finite
\* value over an infinity is 0
QQuot(a, b) ==
    CASE a[1] = "nan" \/ b[1] = "nan" -> QNaN
      [] a[1] # "num" /\ b[1] # "num" -> QNaN
      [] a[1] # "num" -> IF (a[1] = "inf") = QLess(Q(0, 1), b) THEN QInf ELSE QNegInf
      [] b[1] # "num" -> Q(0, 1)
      [] OTHER -> QDiv(a, b)

\* fold_shift > 2
ShiftAboveOrEqual(fold) == QLess(Q(2, 1), fold) \/ fold = Q(2, 1)
ShiftAbove(fold) == QLess(Q(2, 1), fold)

\* fold_shift < 0.5
ShiftBelow(fold) == QLess(fold, Q(1, 2))

\* mixture_ec50_shift(ec50_alone, ec50_combination)
mixture_ec50_shift(ec50_alone, ec50_combination) ==
    IF QIsZero(ec50_alone) \/ QIsZero(ec50_combination) THEN <<QNaN, "invalid">>
    ELSE LET fold_shift == QQuot(ec50_alone, ec50_combination)
         IN  <<fold_shift,
               IF ShiftAbove(fold_shift) THEN "potentiation"
               ELSE IF ShiftBelow(fold_shift) THEN "antagonism"
               ELSE "no_shift">>

Some(v) == <<"some", v>>
None == <<"none", 0>>

\* curve.get(c): the entry at exactly c, None when there is none
GetNearest(curve, c) ==
    IF DOMAIN curve = {} THEN None
    ELSE Some(curve[CHOOSE k \in DOMAIN curve :
                        \A j \in DOMAIN curve : Abs(k - c) <= Abs(j - c)])
Get(curve, c) == IF c \in DOMAIN curve THEN Some(curve[c]) ELSE None

\* the loop over curve_ab.items() up to item i: the deltas appended
RECURSIVE Deltas(_, _, _, _, _)
Deltas(model, curve_a, curve_b, grid, i) ==
    IF i = 0 THEN <<>>
    ELSE LET before == Deltas(model, curve_a, curve_b, grid, i - 1)
             ea == Get(curve_a, grid[i].ca)
             eb == Get(curve_b, grid[i].cb)
         IN  IF ea = None \/ eb = None THEN before
             ELSE LET expected == IF model = "Bliss" THEN bliss_independence(ea[2], eb[2])
                                  ELSE hsa_reference(ea[2], eb[2])
                  IN  Append(before, 10 * grid[i].eab - expected)

RECURSIVE SeqSum(_, _)
SeqSum(v, i) == IF i = 0 THEN 0 ELSE SeqSum(v, i - 1) + v[i]

SeqMax(v) == CHOOSE x \in { v[i] : i \in DOMAIN v } : \A i \in DOMAIN v : v[i] <= x
SeqMin(v) == CHOOSE x \in { v[i] : i \in DOMAIN v } : \A i \in DOMAIN v : v[i] >= x

\* np.std(deltas, ddof=1): the square root of
\* (n * sum(d^2) - sum(d)^2) / (n * (n - 1))
StdDdof1(v) ==
    LET n == Len(v)
    IN  <<"sqrt", Q(n * SumSq(v, n) - SeqSum(v, n) * SeqSum(v, n), n * (n - 1))[2]>>

\* the dictionary built from deltas
DeltaStats(deltas) ==
    IF deltas = <<>>
    THEN [mean_delta |-> QNaN, std_delta |-> QNaN, max_delta |-> QNaN, min_delta |-> QNaN,
          n_points |-> 0]
    ELSE [mean_delta |-> Q(SeqSum(deltas, Len(deltas)), Len(deltas)),
          std_delta |-> IF Len(deltas) > 1 THEN StdDdof1(deltas) ELSE Q(0, 1),
          max_delta |-> Q(SeqMax(deltas), 1),
          min_delta |-> Q(SeqMin(deltas), 1),
          n_points |-> Len(deltas)]

synergy_score_bliss(curve_a, curve_b, curve_ab) ==
    DeltaStats(Deltas("Bliss", curve_a, curve_b, curve_ab, Len(curve_ab)))

synergy_score_hsa(curve_a, curve_b, curve_ab) ==
    DeltaStats(Deltas("HSA", curve_a, curve_b, curve_ab, Len(curve_ab)))

-----------------------------------------------------------------------------
(* dose_response.py: the four-parameter logistic function, on fractions    *)

\* the whole part of the square root of v: the root itself for a perfect square
Root(v) == CHOOSE r \in 0..v : r * r <= v /\ v < (r + 1) * (r + 1)

\* base ** n for a whole n >= 0
RECURSIVE IntPow(_, _)
IntPow(base, n) == IF n = 0 THEN Q(1, 1) ELSE QMul(IntPow(base, n - 1), base)

\* base ** hill for base >= 0 and hill a multiple of 1/2; for a half-integer
\* hill the base is the square of a fraction
QPow(base, hill) ==
    IF hill[2][2] = 1 THEN IntPow(base, hill[2][1])
    ELSE IntPow(Q(Root(base[2][1]), Root(base[2][2])), hill[2][1])

\* x / ec50
DoseUnscaled(x, ec50) == x
DoseRatio(x, ec50) == QDiv(x, ec50)

\* four_pl(x, top, bottom, ec50, hill) at one concentration x
four_pl(x, top, bottom, ec50, hill) ==
    QAdd(bottom, QDiv(QSub(top, bottom),
                      QAdd(Q(1, 1), QPow(DoseRatio(x, ec50), hill))))

\* the arguments of four_pl: responses rising, falling and flat, EC50s below,
\* at and above 1, hills below, at and above 1, x at the EC50 and at 0, a
\* quarter and four times the EC50
Plateaus == { Q(0, 1), Q(10, 1), Q(100, 1), Q(-20, 1) }
Ec50s == { Q(1, 2), Q(1, 1), Q(10, 1) }
Hills == { Q(1, 2), Q(1, 1), Q(2, 1), Q(3, 1) }
DoseMultiples == { Q(0, 1), Q(1, 4), Q(1, 1), Q(4, 1) }

-----------------------------------------------------------------------------
(* kg.py: the typed knowledge graph.  A graph is a set of nodes, each with *)
(* its identifier tuple and its ntype attribute ("" when it has none), and *)
(* a set of edges, each with its end points and its key, the edge type.    *)

MaxKgEdges == 2

\* _node(ntype, nid)
KgNodeId(ntype, nid) == <<ntype, nid>>

\* G.add_node(node_id, ntype=ntype, nid=nid): a node that is there already
\* has its attributes updated
kg_add_node(g, ntype, nid) ==
    [g EXCEPT !.nodes = { n \in g.nodes : n.id # KgNodeId(ntype, nid) }
                            \cup { [id |-> KgNodeId(ntype, nid), ntype |-> ntype] }]

\* the nodes of g with the end point id added, without attributes, when it
\* is not a node yet
WithEndPoint(nodes, id) ==
    IF \E n \in nodes : n.id = id THEN nodes ELSE nodes \cup { [id |-> id, ntype |-> ""] }

\* G.add_edge(src, dst, key=etype, etype=etype, evidence=evidence)
kg_add_edge(g, src, dst, etype) ==
    [nodes |-> WithEndPoint(WithEndPoint(g.nodes, src), dst),
     edges |-> g.edges \cup { [src |-> src, dst |-> dst, etype |-> etype] }]

Successors(g, node) == { e.dst : e \in { f \in g.edges : f.src = node } }
Predecessors(g, node) == { e.src : e \in { f \in g.edges : f.dst = node } }

\* G.nodes[n].get("ntype")
NtypeOf(g, id) == (CHOOSE n \in g.nodes : n.id = id).ntype

KgReturned(value) == [kind |-> "return", exc |-> "", value |-> value]
KgRaised(exc) == [kind |-> "raise", exc |-> exc, value |-> {}]

\* neighbors_by_type(G, node, ntype, direction), node a node of G: the
\* members of the list returned
neighbors_by_type(g, node, ntype, direction) ==
    IF direction \notin {"out", "in", "both"} THEN KgRaised("ValueError")
    ELSE LET neighbors ==
                 CASE direction = "out" -> Successors(g, node)
                   [] direction = "in" -> Predecessors(g, node)
                   [] direction = "both" -> Successors(g, node) \cup Predecessors(g, node)
         IN  KgReturned({ n \in neighbors : NtypeOf(g, n) = ntype })

\* edges_by_type(G, node, etype, direction): the (src, dst) of the members
\* of the list returned
edges_by_type(g, node, etype, direction) ==
    LET outward == IF direction \in {"out", "both"}
                   THEN { <<node, e.dst>> : e \in { f \in g.edges : f.src = node /\ f.etype = etype } }
                   ELSE {}
        inward == IF direction \in {"in", "both"}
                  THEN { <<e.src, node>> : e \in { f \in g.edges : f.dst = node /\ f.etype = etype } }
                  ELSE {}
    IN  KgReturned(outward \cup inward)

\* the nodes, edge types and directions of the calls
KgNodeIds == { KgNodeId("compound", "c1"), KgNodeId("compound", "c2"), KgNodeId("target", "t1") }
KgNodeTypes == {"compound", "target"}
KgEdgeTypes == {"ACTS_ON", "SIMILAR_TO"}
Directions == {"out", "in", "both", "sideways", "OUT"}

\* the arguments of classify_synergy: mean deltas from -0.2 to 0.2 and the
\* three special values, thresholds 0.1 (the default), 0.05 and 0
MeanDeltas == { Q(n, 20) : n \in -4..4 } \cup {QNaN, QInf, QNegInf}
Thresholds == { Q(1, 10), Q(1, 20), Q(0, 1) }

\* the arguments of combination_index_loewe: concentration pairs that are
\* multiples of one another and pairs with a zero, EC50 pairs with and
\* without a zero, fa below, inside and above (0, 1)
ConcPairs == { <<Q(5, 1), Q(10, 1)>>, <<Q(2, 1), Q(4, 1)>>, <<Q(10, 1), Q(20, 1)>>,
               <<Q(5, 2), Q(5, 1)>>, <<Q(2, 1), Q(5, 1)>>, <<Q(0, 1), Q(10, 1)>>,
               <<Q(0, 1), Q(0, 1)>> }
Ec50Pairs == { <<Q(10, 1), Q(20, 1)>>, <<Q(20, 1), Q(10, 1)>>, <<Q(0, 1), Q(20, 1)>>,
               <<Q(10, 1), Q(0, 1)>> }
FractionsAffected == { Q(0, 1), Q(1, 4), Q(1, 2), Q(9, 10), Q(1, 1), Q(3, 2), Q(-1, 2) }

-----------------------------------------------------------------------------
(* zip_bootstrap.py: fit_marginal with its second result and its initial   *)
(* guess                                                                   *)

\* the k-th smallest entry of v
KthSmallest(v, k) ==
    CHOOSE x \in { v[i] : i \in DOMAIN v } :
        /\ Cardinality({ i \in DOMAIN v : v[i] < x }) < k
        /\ k <= Cardinality({ i \in DOMAIN v : v[i] <= x })

\* np.median(v) of a non-empty v
Median(v) ==
    IF Len(v) % 2 = 1 THEN Q(KthSmallest(v, (Len(v) + 1) \div 2), 1)
    ELSE Q(KthSmallest(v, Len(v) \div 2) + KthSmallest(v, Len(v) \div 2 + 1), 2)

\* p0 = [np.min(resps), np.max(resps), np.median(concs), 1.0]
InitialGuess(concs, resps) ==
    <<Q(SeqMin(resps), 1), Q(SeqMax(resps), 1), Median(concs), Q(1, 1)>>

FitReturned(params, values, r2) ==
    [kind |-> "return", exc |-> "", params |-> params, values |-> values, r2 |-> r2]
FitRaised(exc) ==
    [kind |-> "raise", exc |-> exc, params |-> <<>>, values |-> <<>>, r2 |-> QNaN]

\* except Exception: return np.array(p0), 0.0
OnOptimizerFailureRaise(concs, resps) == FitRaised("RuntimeError")
OnOptimizerFailure(concs, resps) ==
    FitReturned(fit_marginal(concs, resps, "fail"), InitialGuess(concs, resps), Q(0, 1))

\* fit_marginal(concs, resps) with p0 = None, both results: np.min of an
\* empty resps raises before the try; the fitted values and their r2 are
\* whatever curve_fit found
FitMarginal(concs, resps, solver) ==
    IF resps = <<>> THEN FitRaised("ValueError")
    ELSE IF solver = "ok"
         THEN FitReturned(fit_marginal(concs, resps, "ok"), <<"fitted">>, <<"fitted", <<0, 1>>>>)
         ELSE OnOptimizerFailure(concs, resps)

\* the arguments of mixture_ec50_shift: EC50s with ratios on, between and
\* outside the two cut-offs, a zero, a negative value and the special values
Ec50Values == { Q(0, 1), Q(5, 1), Q(10, 1), Q(12, 1), Q(20, 1), Q(30, 1), Q(-10, 1),
                QInf, QNaN }

\* the arguments of bliss_independence, in tenths: effects inside and
\* outside [0, 1]
EffectTenths == -5..15

\* the single-agent curves, concentration -> effect in tenths, over every
\* subset of the concentrations 1 and 10, and the combination grids: up to
\* two points with distinct keys, in either order
CurveA == [c \in {1, 10} |-> IF c = 1 THEN 2 ELSE 5]
CurveB == [c \in {1, 10} |-> IF c = 1 THEN 3 ELSE 6]

Restrictions(curve) == { [c \in keys |-> curve[c]] : keys \in SUBSET DOMAIN curve }

GridPoints == [ca : {1, 10}, cb : {1, 10}, eab : {6, 9}]

Grids ==
    {<<>>} \cup { <<pt>> : pt \in GridPoints }
           \cup { <<pp[1], pp[2]>> :
                    pp \in { qq \in GridPoints \X GridPoints :
                                qq[1].ca # qq[2].ca \/ qq[1].cb # qq[2].cb } }

-----------------------------------------------------------------------------
(* The state machines: one fit call on one input, and one run of the       *)
(* candidate_pairs_lsh generator on one graph                              *)

NoCall == [fn |-> "", prefer |-> ""]
NoOut == Returned("", "", NoR2)
NoArgs == [n_bands |-> 0, band_size |-> 0, n_perm |-> 0, bucket_da |-> 0, top_k |-> 0,
           round_da |-> 0, seed |-> 0]

\* no fit call has been made
FitIdle ==
    /\ fitPc = "idle"
    /\ fitCall = NoCall
    /\ fitOut = NoOut
    /\ fitCalls = <<>>
    /\ optCalls = <<>>
    /\ fitLog = <<>>

\* candidate_pairs_lsh has not been called
LshIdle ==
    /\ lshArgs = NoArgs
    /\ genPc = "none"
    /\ genErr = ""
    /\ resumes = 0
    /\ buckets = <<>>
    /\ bucketIdx = 0
    /\ sigs = <<>>
    /\ seen = {}
    /\ pending = <<>>
    /\ sigCalls = <<>>
    /\ yielded = <<>>

\* no whole call has been made on the graph, which has no edges
EdgeIdle ==
    /\ edges = {}
    /\ edgeOp = [fn |-> "", tol_da |-> 0, threshold |-> 0]
    /\ edgeRet = 0
    /\ edgeAdds = <<>>
    /\ edgesBefore = {}
    /\ edgeCalls = 0

NoBootArgs == [n_boot |-> 0, seed |-> 0]
NoBootResult == Aggregates(<<>>)
NoEarlier == [args |-> NoBootArgs, result |-> NoBootResult]

\* no bootstrap_zip call, whatever the process-wide generator holds
NoFmCall == [concs |-> <<>>, resps |-> <<>>, made |-> FALSE]
NoFmOut == FitRaised("")

BootQuiet ==
    /\ bzData = <<>>
    /\ bzGiven = <<>>
    /\ bzSolver = "ok"
    /\ bzArgs = NoBootArgs
    /\ bzPc = "idle"
    /\ bzRng = 0
    /\ bzIdx = <<>>
    /\ bzScores = <<>>
    /\ bzResult = NoBootResult
    /\ bzEarlier = NoEarlier
    /\ bzRuns = 0
    /\ fmCall = NoFmCall
    /\ fmOut = NoFmOut

NoPlCall == [fn |-> "", args |-> <<>>]

\* four_pl has not been called
CurveIdle ==
    /\ plCall = NoPlCall
    /\ plOut = QNaN

NoKgGraph == [nodes |-> {}, edges |-> {}]
NoKgCall == [fn |-> "", node |-> <<>>, type |-> "", direction |-> ""]
NoKgOut == [kind |-> "", exc |-> "", value |-> <<>>]

\* no knowledge graph has been built
KgIdle ==
    /\ kgG = NoKgGraph
    /\ kgCall = NoKgCall
    /\ kgOut = NoKgOut

NoCsCall == [fn |-> "", mz1 |-> <<>>, int1 |-> <<>>, mz2 |-> <<>>, int2 |-> <<>>, tol |-> 0]

\* _cosine_similarity has not been called on its own
CosIdle ==
    /\ csCall = NoCsCall
    /\ csMatched = <<>>
    /\ csOut = ScoreNaN

NoMixCall == [fn |-> "", args |-> <<>>]

\* nothing of mixtures.py has been called
MixIdle ==
    /\ mxCall = NoMixCall
    /\ mxOut = <<>>
    /\ mxPrev = <<>>

NoSigIn == [peaks_mz |-> <<>>, peaks_int |-> <<>>, top_k |-> 0, round_da |-> 0,
            n_perm |-> 0, seed |-> 0]

NoSigAlt == [made |-> FALSE, peaks_mz |-> <<>>, peaks_int |-> <<>>, out |-> <<>>]

\* build_signatures has not been called on its own
SigIdle ==
    /\ sgIn = NoSigIn
    /\ sgOuts = <<>>
    /\ sgBetween = FALSE
    /\ sgAlt = NoSigAlt

\* bootstrap_zip has not been called
BootIdle ==
    /\ npGlobal = 0
    /\ BootQuiet

FitInit ==
    /\ data \in SeqsUpTo(Entries, MaxLen)
    /\ solver4 \in SolverOutcomes
    /\ solver5 \in SolverOutcomes
    /\ FitIdle
    /\ G = <<>>
    /\ LshIdle
    /\ EdgeIdle
    /\ BootIdle
    /\ SigIdle
    /\ MixIdle
    /\ CurveIdle
    /\ KgIdle
    /\ CosIdle

Finish(call, e) ==
    /\ fitPc = "idle"
    /\ fitPc' = "done"
    /\ fitCall' = call
    /\ fitOut' = e.out
    /\ fitCalls' = e.calls
    /\ optCalls' = e.opt
    /\ fitLog' = e.log
    /\ UNCHANGED <<data, solver4, solver5, lshVars, edgeVars, bootVars, sigVars, mixVars,
                   curveVars, kgVars, cosVars>>

CallFit4pl == Finish([fn |-> "fit_4pl", prefer |-> ""], fit_4pl(data, solver4))

CallFit5pl == Finish([fn |-> "fit_5pl", prefer |-> ""], fit_5pl(data, solver4, solver5))

CallAutoFit ==
    \E prefer \in Preferences :
        Finish([fn |-> "auto_fit", prefer |-> prefer], auto_fit(data, prefer, solver4, solver5))

FitNext == CallFit4pl \/ CallFit5pl \/ CallAutoFit

SpecFit == FitInit /\ [][FitNext]_vars

LshInit ==
    /\ G \in Graphs
    /\ LshIdle
    /\ data = <<>>
    /\ solver4 = SolverFail
    /\ solver5 = SolverFail
    /\ FitIdle
    /\ EdgeIdle
    /\ BootIdle
    /\ SigIdle
    /\ MixIdle
    /\ CurveIdle
    /\ KgIdle
    /\ CosIdle

\* candidate_pairs_lsh(G, ...): a generator function, so the call runs none
\* of its body
CallCandidatePairs ==
    /\ genPc = "none"
    /\ \E args \in LshArgChoices : lshArgs' = args
    /\ genPc' = "created"
    /\ UNCHANGED <<G, genErr, resumes, buckets, bucketIdx, sigs, seen, pending, sigCalls,
                   yielded, fitVars, edgeVars, bootVars, sigVars, mixVars,
                   curveVars, kgVars, cosVars>>

\* the loop over the buckets from bucket k on, up to the first yield: the
\* buckets passed, the signatures computed and the pairs of the bucket found
RECURSIVE Scan(_, _, _, _, _)
Scan(g, args, bs, k, calls) ==
    IF k > Len(bs)
    THEN [found |-> FALSE, idx |-> k, ys |-> <<>>, sg |-> <<>>, calls |-> calls]
    ELSE IF SkipBucket(bs[k].specs)
    THEN Scan(g, args, bs, k + 1, calls)
    ELSE LET ys == BucketYields(g, args, bs[k].specs)
             called == calls \o bs[k].specs
         IN  IF ys = <<>>
             THEN Scan(g, args, bs, k + 1, called)
             ELSE [found |-> TRUE, idx |-> k, ys |-> ys,
                   sg |-> BucketSigs(g, args, bs[k].specs), calls |-> called]

\* next() on the generator: run to the next yield, to the end or to an error
GenNext ==
    /\ genPc \in {"created", "suspended"}
    /\ resumes' = resumes + 1
    /\ IF genPc = "created" /\ ~ConfigOk(lshArgs)
       THEN /\ genPc' = "error"
            /\ genErr' = "AssertionError"
            /\ UNCHANGED <<buckets, bucketIdx, sigs, seen, pending, sigCalls, yielded>>
       ELSE IF genPc = "suspended" /\ pending # <<>>
       THEN /\ yielded' = Append(yielded, Head(pending))
            /\ seen' = seen \cup {Head(pending)}
            /\ pending' = Tail(pending)
            /\ UNCHANGED <<genPc, genErr, buckets, bucketIdx, sigs, sigCalls>>
       ELSE \E bs \in { IF genPc = "created" THEN BucketsOf(G, lshArgs) ELSE buckets } :
            \E r \in { Scan(G, lshArgs, bs, bucketIdx + 1, sigCalls) } :
                /\ buckets' = bs
                /\ bucketIdx' = r.idx
                /\ sigCalls' = r.calls
                /\ genErr' = genErr
                /\ IF r.found
                   THEN /\ genPc' = "suspended"
                        /\ yielded' = Append(yielded, Head(r.ys))
                        /\ seen' = {Head(r.ys)}
                        /\ pending' = Tail(r.ys)
                        /\ sigs' = r.sg
                   ELSE /\ genPc' = "done"
                        /\ pending' = <<>>
                        /\ UNCHANGED <<yielded, seen, sigs>>
    /\ UNCHANGED <<G, lshArgs, fitVars, edgeVars, bootVars, sigVars, mixVars,
                   curveVars, kgVars, cosVars>>

LshNext == CallCandidatePairs \/ GenNext

SpecLsh == LshInit /\ [][LshNext]_vars

\* whole calls on one graph, one after the other: the graph keeps the edges
\* of the earlier calls
EdgesInit == LshInit

\* a whole call left the generator it consumed finished or failed
Consumed(args, err, pairs) ==
    /\ lshArgs' = args
    /\ genPc' = IF err = "" THEN "done" ELSE "error"
    /\ genErr' = err
    /\ yielded' = pairs
    /\ UNCHANGED <<resumes, buckets, bucketIdx, sigs, seen, pending, sigCalls>>

\* add_similarity_edges_lsh(G, tol_da, threshold, **lsh_kwargs)
CallAddSimilarityEdges ==
    /\ edgeCalls < MaxEdgeCalls
    /\ \E c \in EdgeCallChoices :
        \E r \in { add_similarity_edges_lsh([nodes |-> G, edges |-> edges],
                                            c.tol_da, c.threshold, c.args) } :
            /\ G' = r.gr.nodes
            /\ edges' = r.gr.edges
            /\ edgeOp' = [fn |-> "add_similarity_edges_lsh", tol_da |-> c.tol_da,
                          threshold |-> c.threshold]
            /\ edgeRet' = r.ret
            /\ edgeAdds' = r.adds
            /\ Consumed(c.args, r.err, r.pairs)
    /\ edgesBefore' = edges
    /\ edgeCalls' = edgeCalls + 1
    /\ UNCHANGED <<fitVars, bootVars, sigVars, mixVars,
                   curveVars, kgVars, cosVars>>

\* list(candidate_pairs_lsh(G, **lsh_kwargs)): the generator run to its end,
\* under a consistent and under an inconsistent banding
CallListCandidatePairs ==
    /\ edgeCalls < MaxEdgeCalls
    /\ \E args \in { c.args : c \in { d \in EdgeCallChoices : d.tol_da = 2 } } :
        \E r \in { candidate_pairs_lsh(G, args) } :
            Consumed(args, r.err, r.pairs)
    /\ edgeOp' = [fn |-> "candidate_pairs_lsh", tol_da |-> 0, threshold |-> 0]
    /\ edgeRet' = 0
    /\ edgeAdds' = <<>>
    /\ edgesBefore' = edges
    /\ edgeCalls' = edgeCalls + 1
    /\ UNCHANGED <<G, edges, fitVars, bootVars, sigVars, mixVars,
                   curveVars, kgVars, cosVars>>

EdgesNext == CallAddSimilarityEdges \/ CallListCandidatePairs

SpecEdges == EdgesInit /\ [][EdgesNext]_vars

\* up to two calls of bootstrap_zip on the same arrays, one after the other,
\* with other code reseeding the process-wide generator before and between
BootInit ==
    /\ bzData \in BootData
    /\ bzGiven = bzData
    /\ bzSolver \in {"ok", "fail"}
    /\ npGlobal = 0
    /\ bzArgs = NoBootArgs
    /\ bzPc = "idle"
    /\ bzRng = 0
    /\ bzIdx = <<>>
    /\ bzScores = <<>>
    /\ bzResult = NoBootResult
    /\ bzEarlier = NoEarlier
    /\ bzRuns = 0
    /\ fmCall = NoFmCall
    /\ fmOut = NoFmOut
    /\ data = <<>>
    /\ solver4 = SolverFail
    /\ solver5 = SolverFail
    /\ FitIdle
    /\ G = <<>>
    /\ LshIdle
    /\ EdgeIdle
    /\ SigIdle
    /\ MixIdle
    /\ CurveIdle
    /\ KgIdle
    /\ CosIdle

\* np.random.seed(s) somewhere else in the process
SeedGlobal ==
    /\ bzPc \in {"idle", "done"}
    /\ bzRuns < 2
    /\ \E s \in GlobalSeeds : s # npGlobal /\ npGlobal' = s
    /\ UNCHANGED <<bzData, bzGiven, bzSolver, bzArgs, bzPc, bzRng, bzIdx, bzScores, bzResult,
                   bzEarlier, bzRuns, fmCall, fmOut,
                   fitVars, lshVars, edgeVars, sigVars, mixVars,
                   curveVars, kgVars, cosVars>>

\* bootstrap_zip(conc_a, conc_b, effect, n_boot, seed) up to its loop
CallBootstrapZip ==
    /\ bzPc \in {"idle", "done"}
    /\ bzRuns < 2
    /\ \E args \in BootArgs :
        /\ bzArgs' = args
        /\ bzRng' = RngOf(args.seed, npGlobal)
    /\ bzEarlier' = [args |-> bzArgs, result |-> bzResult]
    /\ bzPc' = "loop"
    /\ bzIdx' = <<>>
    /\ bzScores' = <<>>
    /\ bzResult' = NoBootResult
    /\ bzRuns' = bzRuns + 1
    /\ UNCHANGED <<bzData, bzGiven, bzSolver, npGlobal, fmCall, fmOut,
                   fitVars, lshVars, edgeVars, sigVars, mixVars,
                   curveVars, kgVars, cosVars>>

\* fit_marginal(concs, resps) called on the points of the data that have
\* conc_b = 0, or on those that have conc_a = 0
CallFitMarginal ==
    /\ bzPc = "idle"
    /\ bzRuns = 0
    /\ \E agent \in {"a", "b"} :
        \E pts \in { IF agent = "a" THEN SelectSeq(bzData, MaskA)
                     ELSE SelectSeq(bzData, MaskB) } :
            \E concs \in { [i \in DOMAIN pts |-> IF agent = "a" THEN pts[i].ca ELSE pts[i].cb] },
               resps \in { [i \in DOMAIN pts |-> pts[i].eff] } :
                /\ fmCall' = [concs |-> concs, resps |-> resps, made |-> TRUE]
                /\ fmOut' = FitMarginal(concs, resps, bzSolver)
    /\ bzPc' = "direct"
    /\ UNCHANGED <<bzData, bzGiven, bzSolver, npGlobal, bzArgs, bzRng, bzIdx, bzScores,
                   bzResult, bzEarlier, bzRuns,
                   fitVars, lshVars, edgeVars, sigVars, mixVars, curveVars, kgVars, cosVars>>

\* one pass through the body of the loop
BootIteration ==
    /\ bzPc = "loop"
    /\ Len(bzScores) < bzArgs.n_boot
    /\ \E c \in { Choice(bzRng, Len(bzData), Len(bzData)) } :
        /\ bzRng' = c.state
        /\ bzIdx' = Append(bzIdx, c.idx)
        /\ bzScores' = Append(bzScores, IterationScore(Take(bzData, c.idx), bzSolver))
    /\ UNCHANGED <<bzData, bzGiven, bzSolver, npGlobal, bzArgs, bzPc, bzResult, bzEarlier,
                   bzRuns, fmCall, fmOut,
                   fitVars, lshVars, edgeVars, sigVars, mixVars,
                   curveVars, kgVars, cosVars>>

\* the loop is over: the aggregates are returned
BootReturn ==
    /\ bzPc = "loop"
    /\ Len(bzScores) >= bzArgs.n_boot
    /\ bzResult' = Aggregates(bzScores)
    /\ bzPc' = "done"
    /\ UNCHANGED <<bzData, bzGiven, bzSolver, npGlobal, bzArgs, bzRng, bzIdx, bzScores,
                   bzEarlier, bzRuns, fmCall, fmOut,
                   fitVars, lshVars, edgeVars, sigVars, mixVars,
                   curveVars, kgVars, cosVars>>

BootNext ==
    SeedGlobal \/ CallBootstrapZip \/ BootIteration \/ BootReturn \/ CallFitMarginal

SpecBoot == BootInit /\ [][BootNext]_vars

\* the arguments of the build_signatures calls: PeaksTie has two peaks of
\* the same intensity, so top_k = 1 cuts through a tie
PeaksTie == [mz |-> <<10025, 20015, 10050>>, it |-> <<70, 70, 30>>]

SigInputs ==
    { [peaks_mz |-> pk.mz, peaks_int |-> pk.it, top_k |-> k, round_da |-> 10,
       n_perm |-> np, seed |-> sd] :
        pk \in {PeaksA, PeaksB, PeaksTie, PeaksEmpty}, k \in {1, 2}, np \in {2, 4},
        sd \in SigSeeds }

\* calls of build_signatures with one set of arguments, other calls and
\* reseedings of the process-wide generator in between
SigInit ==
    /\ sgIn \in SigInputs
    /\ sgOuts = <<>>
    /\ sgBetween = FALSE
    /\ sgAlt = NoSigAlt
    /\ npGlobal \in GlobalSeeds
    /\ BootQuiet
    /\ data = <<>>
    /\ solver4 = SolverFail
    /\ solver5 = SolverFail
    /\ FitIdle
    /\ G = <<>>
    /\ LshIdle
    /\ EdgeIdle
    /\ MixIdle
    /\ CurveIdle
    /\ KgIdle
    /\ CosIdle

SigFrame == UNCHANGED <<bzData, bzGiven, bzSolver, bzArgs, bzPc, bzRng, bzIdx, bzScores,
                        bzResult, bzEarlier, bzRuns, fmCall, fmOut, fitVars, lshVars,
                        edgeVars, mixVars, curveVars, kgVars, cosVars>>

\* build_signatures(peaks_mz, peaks_int, top_k, round_da, n_perm, seed)
CallBuildSignatures ==
    /\ Len(sgOuts) < 2
    /\ sgOuts' = Append(sgOuts,
                        build_signatures(sgIn.peaks_mz, sgIn.peaks_int, sgIn.top_k,
                                         sgIn.round_da, sgIn.n_perm,
                                         SigSeed(sgIn.seed, npGlobal)))
    /\ sgBetween' = FALSE
    /\ UNCHANGED <<sgIn, sgAlt, npGlobal>>
    /\ SigFrame

\* a call with other arguments: it returns its signature and leaves nothing
\* behind
CallBuildSignaturesElsewhere ==
    /\ Len(sgOuts) = 1
    /\ ~sgBetween
    /\ \E other \in SigInputs \ {sgIn} :
        build_signatures(other.peaks_mz, other.peaks_int, other.top_k, other.round_da,
                         other.n_perm, SigSeed(other.seed, npGlobal))
            \in [1..other.n_perm -> Seq(Nat)]
    /\ sgBetween' = TRUE
    /\ UNCHANGED <<sgIn, sgOuts, sgAlt, npGlobal>>
    /\ SigFrame

\* the orders the peaks can be passed in, and the intensities passed with
\* them: the same ones, all equal, or ranked the other way round
Orders(n) == { f \in [1..n -> 1..n] : \A i, j \in 1..n : f[i] = f[j] => i = j }
IntensityChoices == {"same", "flat", "reversed"}

\* build_signatures on the peaks of sgIn in another order, the other
\* arguments as in sgIn
CallBuildSignaturesReordered ==
    /\ Len(sgOuts) = 1
    /\ ~sgAlt.made
    /\ \E order \in Orders(Len(sgIn.peaks_mz)), how \in IntensityChoices :
        \E mz \in { [i \in DOMAIN order |-> sgIn.peaks_mz[order[i]]] },
           it \in { [i \in DOMAIN order |->
                        CASE how = "same" -> sgIn.peaks_int[order[i]]
                          [] how = "flat" -> 10
                          [] how = "reversed" -> 100 - sgIn.peaks_int[order[i]]] } :
            sgAlt' = [made |-> TRUE, peaks_mz |-> mz, peaks_int |-> it,
                      out |-> build_signatures(mz, it, sgIn.top_k, sgIn.round_da,
                                               sgIn.n_perm, SigSeed(sgIn.seed, npGlobal))]
    /\ UNCHANGED <<sgIn, sgOuts, sgBetween, npGlobal>>
    /\ SigFrame

\* np.random.seed(s) somewhere else in the process
ReseedGlobal ==
    /\ Len(sgOuts) < 2
    /\ \E s \in GlobalSeeds : s # npGlobal /\ npGlobal' = s
    /\ UNCHANGED sigVars
    /\ SigFrame

SigNext ==
    \/ CallBuildSignatures
    \/ CallBuildSignaturesElsewhere
    \/ CallBuildSignaturesReordered
    \/ ReseedGlobal

SpecSig == SigInit /\ [][SigNext]_vars

\* calls of the pure functions of mixtures.py
MixInit ==
    /\ MixIdle
    /\ CurveIdle
    /\ KgIdle
    /\ CosIdle
    /\ data = <<>>
    /\ solver4 = SolverFail
    /\ solver5 = SolverFail
    /\ FitIdle
    /\ G = <<>>
    /\ LshIdle
    /\ EdgeIdle
    /\ BootIdle
    /\ SigIdle

MixFrame == UNCHANGED <<fitVars, lshVars, edgeVars, bootVars, sigVars, curveVars, kgVars,
                        cosVars>>

MixCall(fn, args, out) ==
    /\ mxCall' = [fn |-> fn, args |-> args]
    /\ mxOut' = out
    /\ mxPrev' = IF mxCall = NoMixCall THEN <<>> ELSE <<[call |-> mxCall, out |-> mxOut]>>
    /\ MixFrame

CallClassifySynergy ==
    /\ mxCall = NoMixCall
    /\ \E md \in MeanDeltas, th \in Thresholds :
        MixCall("classify_synergy", <<md, th>>, classify_synergy(md, th))

\* one call, or a second one with the same EC50s and fa
CallCombinationIndexLoewe ==
    /\ mxPrev = <<>>
    /\ mxCall.fn \in {"", "combination_index_loewe"}
    /\ \E c \in ConcPairs, e \in Ec50Pairs, fa \in FractionsAffected :
        /\ mxCall.fn # "" => (mxCall.args[3] = e[1] /\ mxCall.args[4] = e[2]
                                /\ mxCall.args[5] = fa)
        /\ MixCall("combination_index_loewe", <<c[1], c[2], e[1], e[2], fa>>,
                   combination_index_loewe(c[1], c[2], e[1], e[2], fa))

CallSynergyScoreBliss ==
    /\ mxCall = NoMixCall
    /\ \E a \in Restrictions(CurveA), b \in Restrictions(CurveB), ab \in Grids :
        MixCall("synergy_score_bliss", <<a, b, ab>>, synergy_score_bliss(a, b, ab))

CallSynergyScoreHsa ==
    /\ mxCall = NoMixCall
    /\ \E a \in Restrictions(CurveA), b \in Restrictions(CurveB), ab \in Grids :
        MixCall("synergy_score_hsa", <<a, b, ab>>, synergy_score_hsa(a, b, ab))

CallMixtureEc50Shift ==
    /\ mxCall = NoMixCall
    /\ \E alone \in Ec50Values, combination \in Ec50Values :
        MixCall("mixture_ec50_shift", <<alone, combination>>,
                mixture_ec50_shift(alone, combination))

\* one call, or a second one with the two arguments exchanged
CallBlissIndependence ==
    /\ mxPrev = <<>>
    /\ mxCall.fn \in {"", "bliss_independence"}
    /\ \E ea \in EffectTenths, eb \in EffectTenths :
        /\ mxCall.fn # "" => mxCall.args = <<eb, ea>>
        /\ MixCall("bliss_independence", <<ea, eb>>, bliss_independence(ea, eb))

MixNext ==
    \/ CallClassifySynergy
    \/ CallCombinationIndexLoewe
    \/ CallSynergyScoreBliss
    \/ CallSynergyScoreHsa
    \/ CallMixtureEc50Shift
    \/ CallBlissIndependence

SpecMix == MixInit /\ [][MixNext]_vars

\* a knowledge graph built node by node and edge by edge, then traversed
KgInit == MixInit

KgFrame == UNCHANGED <<fitVars, lshVars, edgeVars, bootVars, sigVars, mixVars, curveVars,
                       cosVars>>

AddNode ==
    /\ kgCall = NoKgCall
    /\ \E id \in KgNodeIds :
        /\ [id |-> id, ntype |-> id[1]] \notin kgG.nodes
        /\ kgG' = kg_add_node(kgG, id[1], id[2])
    /\ UNCHANGED <<kgCall, kgOut>>
    /\ KgFrame

AddEdge ==
    /\ kgCall = NoKgCall
    /\ Cardinality(kgG.edges) < MaxKgEdges
    /\ \E src \in KgNodeIds, dst \in KgNodeIds, etype \in KgEdgeTypes :
        /\ src # dst
        /\ [src |-> src, dst |-> dst, etype |-> etype] \notin kgG.edges
        /\ kgG' = kg_add_edge(kgG, src, dst, etype)
    /\ UNCHANGED <<kgCall, kgOut>>
    /\ KgFrame

CallNeighborsByType ==
    /\ kgCall = NoKgCall
    /\ \E n \in kgG.nodes, ntype \in KgNodeTypes, direction \in Directions :
        /\ kgCall' = [fn |-> "neighbors_by_type", node |-> n.id, type |-> ntype,
                      direction |-> direction]
        /\ kgOut' = neighbors_by_type(kgG, n.id, ntype, direction)
    /\ UNCHANGED kgG
    /\ KgFrame

CallEdgesByType ==
    /\ kgCall = NoKgCall
    /\ \E n \in kgG.nodes, etype \in KgEdgeTypes, direction \in Directions :
        /\ kgCall' = [fn |-> "edges_by_type", node |-> n.id, type |-> etype,
                      direction |-> direction]
        /\ kgOut' = edges_by_type(kgG, n.id, etype, direction)
    /\ UNCHANGED kgG
    /\ KgFrame

KgNext == AddNode \/ AddEdge \/ CallNeighborsByType \/ CallEdgesByType

SpecKg == KgInit /\ [][KgNext]_vars

\* the spectra of the _cosine_similarity calls: up to MaxPeaks peaks each, in
\* any order and with repeats, at 100, 102 and 104 (so that a peak can have
\* two equally close partners), intensities 1, 2, 3, ... by position
MaxPeaks == 3
PeakLists == UNION { [1..n -> {100, 102, 104}] : n \in 0..MaxPeaks }
Tolerances == {1, 2, 4}

CosInit == MixInit

\* _cosine_similarity(mz1, int1, mz2, int2, tol)
CallCosineSimilarity ==
    /\ csCall = NoCsCall
    /\ \E mz1 \in PeakLists, mz2 \in PeakLists, tol \in Tolerances :
        \E int1 \in { [i \in DOMAIN mz1 |-> i] }, int2 \in { [i \in DOMAIN mz2 |-> i] } :
            /\ csCall' = [fn |-> "_cosine_similarity", mz1 |-> mz1, int1 |-> int1,
                          mz2 |-> mz2, int2 |-> int2, tol |-> tol]
            /\ csMatched' = IF Len(mz1) = 0 \/ Len(mz2) = 0 THEN <<>>
                            ELSE Matches(mz1, mz2, tol, Len(mz1)).pairs
            /\ csOut' = cosine_similarity(mz1, int1, mz2, int2, tol)
    /\ UNCHANGED <<fitVars, lshVars, edgeVars, bootVars, sigVars, mixVars, curveVars, kgVars>>

CosNext == CallCosineSimilarity

SpecCos == CosInit /\ [][CosNext]_vars

\* calls of four_pl
CurveInit == MixInit

CallFourPl ==
    /\ plCall = NoPlCall
    /\ \E top \in Plateaus, bottom \in Plateaus, ec50 \in Ec50s, hill \in Hills,
          m \in DoseMultiples :
        \E x \in { QMul(m, ec50) } :
            /\ plCall' = [fn |-> "four_pl", args |-> <<x, top, bottom, ec50, hill>>]
            /\ plOut' = four_pl(x, top, bottom, ec50, hill)
    /\ UNCHANGED <<fitVars, lshVars, edgeVars, bootVars, sigVars, mixVars, kgVars, cosVars>>

CurveNext == CallFourPl

SpecCurve == CurveInit /\ [][CurveNext]_vars

-----------------------------------------------------------------------------
(* Properties of the model selector                                        *)

Range(s) == { s[i] : i \in DOMAIN s }

\* the number of usable points of the raw arrays, counted entry by entry
UsableCount(d) ==
    Cardinality({ i \in DOMAIN d :
                    /\ d[i].x[1] = "num" /\ d[i].x[2] > 0
                    /\ d[i].y[1] = "num" })

AutoFitDone == fitPc = "done" /\ fitCall.fn = "auto_fit"

\* C1: with at least 4 but fewer than 5 usable points, auto_fit hands back
\* the outcome of the 4PL fit under the name "4PL" for every preference and
\* never enters fit_5pl, however many unusable entries the raw arrays hold.
C1_FewUsableForcesFourPL ==
    (AutoFitDone /\ UsableCount(data) >= 4 /\ UsableCount(data) < 5)
        => /\ fitOut = Named("4PL", fit_4pl(data, solver4)).out
           /\ "fit_5pl" \notin Range(fitCalls)

\* a <= b - 2 on AIC values held in fifths
AtLeastTwoLess(a, b) == ~FLess(FAddNum(b, -10), a)

BothFitsSucceed ==
    /\ Len(data) >= 5
    /\ UsableCount(data) >= 5
    /\ solver4[1] = "ok"
    /\ solver5[1] = "ok"

\* C2: in auto mode, when both fits succeed, 5PL is returned only if
\* AIC5 <= AIC4 - 2 with AIC = n*ln(1-R2) + 2k; whenever AIC5 > AIC4 - 2 the
\* 4PL result is returned; a returned model name is always "4PL" or "5PL".
C2_AutoSelectsByAic ==
    /\ (AutoFitDone /\ fitOut.kind = "return") => fitOut.model \in {"4PL", "5PL"}
    /\ (AutoFitDone /\ fitCall.prefer = "auto" /\ BothFitsSucceed)
        => LET aic4 == Aic(Len(data), solver4[2], 4)
               aic5 == Aic(Len(data), solver5[2], 5)
           IN  /\ fitOut.kind = "return"
               /\ fitOut.model = "5PL" =>
                    /\ AtLeastTwoLess(aic5, aic4)
                    /\ fitOut.params = "popt5" /\ fitOut.r2 = solver5[2]
               /\ ~AtLeastTwoLess(aic5, aic4) =>
                    /\ fitOut.model = "4PL"
                    /\ fitOut.params = "popt4" /\ fitOut.r2 = solver4[2]

\* auto mode picked 5PL on an input where the AIC gap is finite
C2_Witness ==
    /\ AutoFitDone /\ fitCall.prefer = "auto" /\ BothFitsSucceed
    /\ fitOut.model = "5PL"
    /\ solver5[2][1] = "resid"

\* C3: in auto mode a failure of either fit ends in the 4PL fit being run
\* again and its outcome handed back; when the 4PL fit succeeds on the
\* input, auto mode returns a "4PL" or "5PL" result and never raises.
C3_AutoFallsBackToFourPL ==
    (AutoFitDone /\ fitCall.prefer = "auto")
        => /\ (UsableCount(data) >= 4 /\ solver4[1] = "ok")
                => fitOut.kind = "return" /\ fitOut.model \in {"4PL", "5PL"}
           /\ (Len(data) >= 5 /\ (UsableCount(data) < 5 \/ solver4[1] = "fail" \/ solver5[1] = "fail"))
                => /\ fitCalls[Len(fitCalls)] = "fit_4pl"
                   /\ "Auto-fit defaulting to 4PL" \in Range(fitLog)
                   /\ fitOut.kind = "return" => fitOut.model = "4PL" /\ fitOut.params = "popt4"

\* auto mode returned the 4PL fit after the 5PL solver failed
C3_Witness ==
    /\ AutoFitDone /\ fitCall.prefer = "auto"
    /\ UsableCount(data) >= 5 /\ solver4[1] = "ok" /\ solver5[1] = "fail"
    /\ fitOut.kind = "return" /\ fitOut.model = "4PL"
    /\ "five_pl" \in Range(optCalls)

InsufficientData(out, min) ==
    /\ out.kind = "raise"
    /\ out.exc = "ValueError"
    /\ out.min = min

\* C4: fit_4pl raises the insufficient-data error naming the minimum 4
\* exactly when fewer than 4 usable entries remain, fit_5pl the one naming 5
\* exactly when fewer than 5 remain; the error comes before any curve_fit
\* call and without any parameters.
C4_InsufficientDataExactly ==
    /\ (fitPc = "done" /\ fitCall.fn = "fit_4pl")
        => /\ InsufficientData(fitOut, 4) <=> UsableCount(data) < 4
           /\ InsufficientData(fitOut, 4) =>
                optCalls = <<>> /\ fitOut.params = "" /\ fitOut.got = UsableCount(data)
    /\ (fitPc = "done" /\ fitCall.fn = "fit_5pl")
        => /\ InsufficientData(fitOut, 5) <=> UsableCount(data) < 5
           /\ InsufficientData(fitOut, 5) =>
                optCalls = <<>> /\ fitOut.params = "" /\ fitOut.got = UsableCount(data)

\* fit_4pl refused raw arrays of 5 entries of which only 3 are usable
C4_Witness ==
    /\ fitPc = "done" /\ fitCall.fn = "fit_4pl"
    /\ Len(data) = 5 /\ UsableCount(data) = 3
    /\ InsufficientData(fitOut, 4)

SolverError(out) == out.kind = "raise" /\ out.exc = "RuntimeError" /\ out.msg = "solver"

\* C5: a solver failure in fit_4pl or fit_5pl reaches the caller as an
\* error, returned parameters always come from a converged solver, auto_fit
\* with preference 4PL or 5PL passes the error on and only auto mode
\* catches it.
C5_SolverFailurePropagates ==
    /\ (fitPc = "done" /\ fitOut.kind = "return")
        => /\ fitOut.params \in {"popt4", "popt5"}
           /\ solver4[1] = "ok"
           /\ fitOut.params = "popt5" => solver5[1] = "ok"
    /\ (fitPc = "done" /\ fitCall.fn = "fit_4pl" /\ UsableCount(data) >= 4 /\ solver4[1] = "fail")
        => SolverError(fitOut)
    /\ (fitPc = "done" /\ fitCall.fn = "fit_5pl" /\ UsableCount(data) >= 5
            /\ (solver4[1] = "fail" \/ solver5[1] = "fail"))
        => SolverError(fitOut)
    /\ (AutoFitDone /\ fitCall.prefer = "4PL" /\ UsableCount(data) >= 4 /\ solver4[1] = "fail")
        => SolverError(fitOut) /\ "Auto-fit defaulting to 4PL" \notin Range(fitLog)
    /\ (AutoFitDone /\ fitCall.prefer = "5PL" /\ UsableCount(data) >= 5
            /\ (solver4[1] = "fail" \/ solver5[1] = "fail"))
        => SolverError(fitOut) /\ "Auto-fit defaulting to 4PL" \notin Range(fitLog)
    /\ (AutoFitDone /\ "Auto-fit defaulting to 4PL" \in Range(fitLog))
        => fitCall.prefer = "auto"

\* auto_fit with preference 5PL raised the 5PL solver's error
C5_Witness ==
    /\ AutoFitDone /\ fitCall.prefer = "5PL"
    /\ UsableCount(data) >= 5 /\ solver4[1] = "ok" /\ solver5[1] = "fail"
    /\ SolverError(fitOut)
    /\ optCalls = <<"four_pl", "five_pl">>

-----------------------------------------------------------------------------
(* Properties of candidate_pairs_lsh                                       *)

SpectrumIds == { G[i].sid : i \in { j \in DOMAIN G : G[j].ntype = "spectrum" } }

HasPeaks(sid) == SpecNode(G, sid).has_peaks /\ Len(SpecNode(G, sid).peaks_mz) > 0

SamePeaks(s, t) ==
    /\ SpecNode(G, s).peaks_mz = SpecNode(G, t).peaks_mz
    /\ SpecNode(G, s).peaks_int = SpecNode(G, t).peaks_int

\* same ionization mode and same floor(precursor_mz / bucket_width)
SameBucket(s, t) ==
    /\ SpecNode(G, s).ionmode = SpecNode(G, t).ionmode
    /\ SpecNode(G, s).precursor_mz \div lshArgs.bucket_da
         = SpecNode(G, t).precursor_mz \div lshArgs.bucket_da

SignatureOf(sid) == NodeSignature(SpecNode(G, sid), lshArgs)

\* the signatures of all spectra of the graph under the arguments of the call
Signatures == [s \in SpectrumIds |-> SignatureOf(s)]

\* the signatures agree on all band_size positions of band b (from 1)
ShareBand(sg, s, t, b) ==
    \A k \in 1..lshArgs.band_size :
        sg[s][(b - 1) * lshArgs.band_size + k] = sg[t][(b - 1) * lshArgs.band_size + k]

SharedBands(sg, s, t) == { b \in 1..lshArgs.n_bands : ShareBand(sg, s, t, b) }

YieldedPairs == { yielded[i] : i \in DOMAIN yielded }

Inconsistent == lshArgs.n_bands * lshArgs.band_size # lshArgs.n_perm

\* C6: with n_bands * band_size # n_perm the generator ends in the
\* configuration error (an AssertionError) the first time it is resumed,
\* with no bucket filled, no signature computed and no pair yielded.
C6_ConfigErrorBeforeAnyWork ==
    (genPc # "none" /\ Inconsistent)
        => /\ genPc \in {"created", "error"}
           /\ resumes >= 1 => (genPc = "error" /\ genErr = "AssertionError")
           /\ buckets = <<>>
           /\ sigCalls = <<>>
           /\ yielded = <<>>

\* the error was raised on a graph holding two spectra that would pair
C6_Witness ==
    /\ genPc = "error" /\ Inconsistent
    /\ \E s, t \in SpectrumIds :
        s < t /\ HasPeaks(s) /\ HasPeaks(t) /\ SamePeaks(s, t) /\ SameBucket(s, t)

\* C7: no pair is yielded twice, in either order, no pair is (x, x), and
\* every pair has the smaller id first.
C7_EachPairOnceCanonical ==
    \A i \in DOMAIN yielded :
        /\ yielded[i][1] < yielded[i][2]
        /\ \A j \in DOMAIN yielded :
            j # i => {yielded[j][1], yielded[j][2]} # {yielded[i][1], yielded[i][2]}

\* a finished run yielded a pair whose spectra collide in two bands
C7_Witness ==
    /\ genPc = "done"
    /\ \E sg \in {Signatures} :
        \E p \in YieldedPairs : Cardinality(SharedBands(sg, p[1], p[2])) >= 2

\* the pairs of the claim: both peak lists non-empty, same bucket, and the
\* signatures identical on at least one band
ExpectedPairs(sg) ==
    { <<s, t>> \in SpectrumIds \X SpectrumIds :
        /\ s < t
        /\ HasPeaks(s) /\ HasPeaks(t)
        /\ SameBucket(s, t)
        /\ SharedBands(sg, s, t) # {} }

\* C8: every pair yielded is a pair of non-empty spectra of one bucket that
\* share a band, and a finished run has yielded every such pair.
C8_YieldsExactlySameBucketBandMates ==
    genPc \in {"suspended", "done"} =>
        \A expected \in {ExpectedPairs(Signatures)} :
            /\ YieldedPairs \subseteq expected
            /\ genPc = "done" => YieldedPairs = expected

\* a finished run yielded one pair and left out a pair of non-empty spectra
\* of the same bucket that shares no band
C8_Witness ==
    /\ genPc = "done"
    /\ YieldedPairs # {}
    /\ \E sg \in {Signatures} : \E s, t \in SpectrumIds :
        /\ s < t /\ HasPeaks(s) /\ HasPeaks(t) /\ SameBucket(s, t)
        /\ SharedBands(sg, s, t) = {}
        /\ <<s, t>> \notin YieldedPairs

\* C9 as claimed: two spectra with identical non-empty peak lists are always
\* yielded as a pair by a finished run.
C9_IdenticalPeaksAlwaysPaired ==
    genPc = "done" =>
        \A s, t \in SpectrumIds :
            (s < t /\ HasPeaks(s) /\ SamePeaks(s, t)) => <<s, t>> \in YieldedPairs

\* C9 as amended: two spectra with identical non-empty peak lists that also
\* have the same ionization mode and the same floor(precursor_mz /
\* bucket_width) share every band and are yielded as a pair by a finished
\* run (n_bands >= 1).
C9_IdenticalPeaksInOneBucketPaired ==
    genPc = "done" =>
        \A sg \in {Signatures} : \A s, t \in SpectrumIds :
            (s < t /\ HasPeaks(s) /\ SamePeaks(s, t) /\ SameBucket(s, t))
                => /\ SharedBands(sg, s, t) = 1..lshArgs.n_bands
                   /\ <<s, t>> \in YieldedPairs

\* a finished run paired two identical spectra of one bucket
C9_Witness ==
    /\ genPc = "done"
    /\ \E s, t \in SpectrumIds :
        /\ s < t /\ HasPeaks(s) /\ SamePeaks(s, t) /\ SameBucket(s, t)
        /\ <<s, t>> \in YieldedPairs

IsEmptySpectrum(sid) == SpecNode(G, sid).has_peaks /\ Len(SpecNode(G, sid).peaks_mz) = 0

\* C10: the signature of an empty peak list has n_perm components, each the
\* sentinel 2^63 - 1, above every hash value; a spectrum with an empty peak
\* list is in no yielded pair.
C10_EmptyPeaksSentinelNeverPaired ==
    genPc # "none" =>
        /\ \A sg \in {Signatures} : \A s \in SpectrumIds :
            IsEmptySpectrum(s) =>
                /\ DOMAIN sg[s] = 1..lshArgs.n_perm
                /\ \A i \in 1..lshArgs.n_perm : sg[s][i] = <<2^21 - 1, 2^21 - 1, 2^21 - 1>>
                /\ \A t \in SpectrumIds :
                    HasPeaks(t) => \A i \in 1..lshArgs.n_perm : U64Less(sg[t][i], sg[s][i])
        /\ \A p \in YieldedPairs : HasPeaks(p[1]) /\ HasPeaks(p[2])

\* a finished run yielded a pair from the bucket an empty spectrum would
\* have joined
C10_Witness ==
    /\ genPc = "done"
    /\ \E p \in YieldedPairs :
        \E e \in SpectrumIds : IsEmptySpectrum(e) /\ SameBucket(e, p[1])

-----------------------------------------------------------------------------
(* Properties of add_similarity_edges_lsh                                  *)

AddEdgesDone == edgeOp.fn = "add_similarity_edges_lsh" /\ genPc = "done"

\* the edges from spectrum s to spectrum t in a set of edges
EdgesBetween(es, s, t) ==
    { e \in es : e.src = <<"spectrum", s>> /\ e.dst = <<"spectrum", t>> }

\* the exact score of the pair under the tolerance of the call
PairScore(s, t) ==
    cosine_similarity(SpecNode(G, s).peaks_mz, SpecNode(G, s).peaks_int,
                      SpecNode(G, t).peaks_mz, SpecNode(G, t).peaks_int, edgeOp.tol_da)

\* score >= threshold / 100, both sides squared
AtLeastThreshold(score) ==
    /\ score.kind = "num"
    /\ 10000 * score.n * score.n >= edgeOp.threshold * edgeOp.threshold * score.d2

\* C11: after a call of add_similarity_edges_lsh, a pair of spectra that is
\* an LSH candidate (same bucket, a shared band) and scores at least the
\* threshold has exactly one similarity edge, from the smaller id to the
\* larger, whose weight is that score, put there by this call; for every
\* other pair the call made no add_edge and left the edges as they were.
C11_EdgeIffCandidateAboveThreshold ==
    AddEdgesDone =>
        \A cands \in {ExpectedPairs(Signatures)} :
            \A s, t \in SpectrumIds :
                IF <<s, t>> \in cands /\ AtLeastThreshold(PairScore(s, t))
                THEN /\ EdgesBetween(edges, s, t)
                            = {[src |-> <<"spectrum", s>>, dst |-> <<"spectrum", t>>,
                                key |-> "SIMILAR_LSH", etype |-> "SIMILAR",
                                weight |-> PairScore(s, t), tol_da |-> edgeOp.tol_da]}
                     /\ EdgesBetween(Range(edgeAdds), s, t) = EdgesBetween(edges, s, t)
                ELSE /\ EdgesBetween(Range(edgeAdds), s, t) = {}
                     /\ EdgesBetween(edges, s, t) = EdgesBetween(edgesBefore, s, t)

\* on a graph without edges, one call gave an edge to a candidate pair
\* scoring below 1 and none to a pair of spectra in different buckets that
\* scores above the threshold
C11_Witness ==
    /\ AddEdgesDone /\ edgesBefore = {}
    /\ \E s, t \in SpectrumIds :
        /\ EdgesBetween(edges, s, t) # {}
        /\ PairScore(s, t).n * PairScore(s, t).n < PairScore(s, t).d2
    /\ \E s, t \in SpectrumIds :
        /\ s < t /\ HasPeaks(s) /\ HasPeaks(t) /\ ~SameBucket(s, t)
        /\ AtLeastThreshold(PairScore(s, t))
        /\ EdgesBetween(edges, s, t) = {}

\* C12 as claimed: the integer a call of add_similarity_edges_lsh returns is
\* the number of edges of the graph after the call minus the number before.
C12_ReturnsEdgesAdded ==
    AddEdgesDone => edgeRet = Cardinality(edges) - Cardinality(edgesBefore)

\* C13: no step changes the nodes of the graph or their attributes;
\* candidate_pairs_lsh changes no edge either; add_similarity_edges_lsh
\* removes no edge, and every edge it writes is a SIMILAR edge between two
\* spectrum nodes the graph already held.
C13_OnlySimilarEdgesInserted ==
    [][ /\ G' = G
        /\ edgeOp'.fn = "candidate_pairs_lsh" => edges' = edges
        /\ \A e \in edges :
            \E f \in edges' : f.src = e.src /\ f.dst = e.dst /\ f.key = e.key
        /\ \A f \in edges' \ edges :
            /\ f.etype = "SIMILAR" /\ f.key = "SIMILAR_LSH"
            /\ f.src[1] = "spectrum" /\ f.dst[1] = "spectrum"
            /\ \E i, j \in DOMAIN G : NodeKey(G[i]) = f.src /\ NodeKey(G[j]) = f.dst
      ]_vars

\* a call added an edge to a graph that also holds a node without peaks and
\* a spectrum it did not pair
C13_Witness ==
    /\ AddEdgesDone
    /\ edges # edgesBefore
    /\ Len(G) = 3
    /\ \E i \in DOMAIN G : ~G[i].has_peaks

\* between any ordered pair of nodes there is at most one edge with the key
\* of the LSH similarity edges
AtMostOneLshEdge ==
    \A e, f \in edges :
        (e.src = f.src /\ e.dst = f.dst /\ e.etype = "SIMILAR" /\ f.etype = "SIMILAR") => e = f

\* C30: a call of add_similarity_edges_lsh that follows a call with the same
\* arguments leaves the nodes, the edges and every edge weight as they were;
\* after any number of calls there is at most one LSH similarity edge
\* between any ordered pair of spectrum nodes.
C30_SecondCallChangesNothing ==
    [][ /\ (/\ AddEdgesDone
            /\ edgeOp' = edgeOp
            /\ lshArgs' = lshArgs
            /\ genPc' = "done"
            /\ edgeCalls' = edgeCalls + 1) => (G' = G /\ edges' = edges)
        /\ AtMostOneLshEdge'
      ]_vars

\* the second of two calls returned 1 or more on a graph that already held
\* its edges: every edge carries the tolerance 0.02 of this call, which only
\* the same call can have written
C30_Witness ==
    /\ AddEdgesDone
    /\ edgeCalls = 2
    /\ edgeOp.tol_da = 2
    /\ edgeRet >= 1
    /\ edges # {}
    /\ edges = edgesBefore
    /\ \A e \in edges : e.tol_da = 2

-----------------------------------------------------------------------------
(* Properties of bootstrap_zip                                             *)

\* the resample of iteration k
Resample(k) == [i \in DOMAIN bzIdx[k] |-> bzData[bzIdx[k][i]]]

CountWhere(rs, ca0, cb0) ==
    Cardinality({ i \in DOMAIN rs : (rs[i].ca = 0) = ca0 /\ (rs[i].cb = 0) = cb0 })

\* the points of the resample with conc_b = 0, with conc_a = 0, and with both
\* concentrations above 0
AAlone(rs) == CountWhere(rs, TRUE, TRUE) + CountWhere(rs, FALSE, TRUE)
BAlone(rs) == CountWhere(rs, TRUE, TRUE) + CountWhere(rs, TRUE, FALSE)
Combination(rs) == CountWhere(rs, FALSE, FALSE)

Degenerate(rs) == AAlone(rs) < 4 \/ BAlone(rs) < 4 \/ Combination(rs) = 0

\* C14: every iteration draws one resample of n indices and appends one
\* score: 0 when the resample has fewer than 4 points with conc_b = 0, fewer
\* than 4 with conc_a = 0 or no combination point, else the mean delta over
\* exactly its combination points; the call always returns, and the mean,
\* percentiles and standard deviation are over the n_boot scores.
C14_OneScorePerIteration ==
    bzPc # "idle" =>
        /\ Len(bzScores) = Len(bzIdx)
        /\ Len(bzScores) <= bzArgs.n_boot
        /\ \A k \in DOMAIN bzScores :
            /\ DOMAIN bzIdx[k] = DOMAIN bzData
            /\ \A i \in DOMAIN bzIdx[k] : bzIdx[k][i] \in DOMAIN bzData
            /\ IF Degenerate(Resample(k))
               THEN bzScores[k] = <<"num", 0>>
               ELSE /\ bzScores[k][1] = "mean_delta"
                    /\ Len(bzScores[k][2]) = Combination(Resample(k))
                    /\ \A i \in DOMAIN bzScores[k][2] :
                        bzScores[k][2][i].ca > 0 /\ bzScores[k][2][i].cb > 0
                    /\ Len(bzScores[k][3][2]) = AAlone(Resample(k))
                    /\ Len(bzScores[k][4][2]) = BAlone(Resample(k))
        /\ bzPc = "done" =>
            /\ Len(bzScores) = bzArgs.n_boot
            /\ bzResult.zip_mean = <<"mean", bzScores>>
            /\ bzResult.zip_ci_low = <<"percentile", 25, bzScores>>
            /\ bzResult.zip_ci_high = <<"percentile", 975, bzScores>>
            /\ bzResult.zip_std = <<"std", bzScores>>

\* a call of two iterations returned after one degenerate resample and one
\* that was scored, the marginal fits of which fell back to p0
C14_Witness ==
    /\ bzPc = "done" /\ bzArgs.n_boot = 2
    /\ \E j, k \in DOMAIN bzScores :
        /\ bzScores[j] = <<"num", 0>>
        /\ bzScores[k][1] = "mean_delta"
        /\ bzScores[k][3][1] = "p0"

\* C15: a call with the same n_boot and seed as the call before it on the
\* same arrays returns the same dictionary, whatever the process-wide
\* generator was seeded with before either call; the arrays are as the
\* caller built them.
C15_SameSeedSameResult ==
    /\ bzData = bzGiven
    /\ (bzPc = "done" /\ bzRuns = 2 /\ bzEarlier.args = bzArgs)
        => bzResult = bzEarlier.result

\* the second of two calls with the same arguments returned a scored
\* iteration, the process-wide generator reseeded in between to the very
\* seed of the calls
C15_Witness ==
    /\ bzPc = "done" /\ bzRuns = 2 /\ bzEarlier.args = bzArgs
    /\ npGlobal = bzArgs.seed
    /\ \E k \in DOMAIN bzScores : bzScores[k][1] = "mean_delta"

-----------------------------------------------------------------------------
(* Properties of build_signatures                                          *)

\* C16: two calls of build_signatures with the same peak arrays, top_k,
\* round_da, n_perm and seed return the same signature, of n_perm
\* components, whatever was called or reseeded in between.
C16_SignaturesDeterministic ==
    /\ \A k \in DOMAIN sgOuts : DOMAIN sgOuts[k] = 1..sgIn.n_perm
    /\ Len(sgOuts) = 2 => sgOuts[1] = sgOuts[2]

\* the second call came after another call and with the process-wide
\* generator reseeded since the first, on peaks of which top_k keeps a part
C16_Witness ==
    /\ Len(sgOuts) = 2
    /\ Len(sgIn.peaks_mz) > sgIn.top_k
    /\ sgIn.seed # npGlobal
    /\ sgOuts[2] # [i \in 1..sgIn.n_perm |-> Sentinel64]

\* the sets of positions that hold the k most intense peaks
TopSets(it, k) ==
    { S \in SUBSET DOMAIN it :
        /\ Cardinality(S) = (IF k < Len(it) THEN k ELSE Len(it))
        /\ \A i \in S, j \in DOMAIN it \ S : it[i] >= it[j] }

\* sig is the signature of the peak list under the arguments of sgIn:
\* n_perm components, each the least hash value over the rounded m/z of the
\* top_k peaks, each below 2^31 - 1 and below the sentinel
IsMinHashOf(sig, mz, it) ==
    /\ DOMAIN sig = 1..sgIn.n_perm
    /\ \E S \in TopSets(it, sgIn.top_k) :
        \A toks \in { { RoundHalfEven(mz[i], sgIn.round_da) : i \in S } } :
            \A c \in 1..sgIn.n_perm :
                \A hashes \in { { U64(HashVal(RandomState[sgIn.seed][c],
                                              RandomState[sgIn.seed][sgIn.n_perm + c], t)) :
                                    t \in toks } } :
                    /\ sig[c] \in hashes
                    /\ \A h \in hashes : ~U64Less(h, sig[c])
    /\ \A c \in 1..sgIn.n_perm : U64Less(sig[c], U64(Prime)) /\ U64Less(sig[c], Sentinel64)

\* C26: for a non-empty peak list build_signatures returns n_perm
\* components, component i being the minimum of (a_i*t + b_i) mod (2^31 - 1)
\* over the deduplicated rounded m/z of the top_k peaks by intensity; every
\* component is below 2^31 - 1 and below the empty-list sentinel; with at
\* most top_k peaks the signature depends neither on the order of the peaks
\* nor on the intensities.
C26_SignatureIsMinHashOfTopTokens ==
    Len(sgIn.peaks_mz) > 0 =>
        /\ \A k \in DOMAIN sgOuts : IsMinHashOf(sgOuts[k], sgIn.peaks_mz, sgIn.peaks_int)
        /\ sgAlt.made =>
            /\ IsMinHashOf(sgAlt.out, sgAlt.peaks_mz, sgAlt.peaks_int)
            /\ Len(sgIn.peaks_mz) <= sgIn.top_k => sgAlt.out = sgOuts[1]

\* two peaks passed the other way round with equal intensities, top_k = 2
C26_Witness ==
    /\ sgAlt.made
    /\ Len(sgIn.peaks_mz) = 2 /\ sgIn.top_k = 2
    /\ sgAlt.peaks_mz # sgIn.peaks_mz
    /\ sgAlt.peaks_int = <<10, 10>>
    /\ sgAlt.out = sgOuts[1]

-----------------------------------------------------------------------------
(* Properties of mixtures.py                                               *)

QNeg(a) ==
    CASE a[1] = "num" -> Q(-a[2][1], a[2][2])
      [] a[1] = "inf" -> QNegInf
      [] a[1] = "-inf" -> QInf
      [] OTHER -> a

\* C17 as claimed: classify_synergy returns "synergy" if mean_delta >
\* threshold, "antagonism" if mean_delta < -threshold and "additive" in
\* every other case, mean_delta = threshold and = -threshold included.
C17_ClassifyByStrictThreshold ==
    mxCall.fn = "classify_synergy" =>
        LET mean_delta == mxCall.args[1]
            threshold == mxCall.args[2]
        IN  mxOut = IF QLess(threshold, mean_delta) THEN "synergy"
                    ELSE IF QLess(mean_delta, QNeg(threshold)) THEN "antagonism"
                    ELSE "additive"

LoeweCall(c) == c.fn = "combination_index_loewe"

\* the dose of one agent alone that gives the effect fa, for fa < 1
DoseAlone(ec50, fa) == QMul(ec50, QDiv(fa, QSub(Q(1, 1), fa)))

\* C18 as claimed: combination_index_loewe returns +infinity whenever
\* fa >= 1 or one of D_a, D_b is zero, and conc_a/D_a + conc_b/D_b in every
\* other case.
C18_LoeweInfiniteOrSum ==
    LoeweCall(mxCall) =>
        LET conc_a == mxCall.args[1]
            conc_b == mxCall.args[2]
            ec50_a == mxCall.args[3]
            ec50_b == mxCall.args[4]
            fa == mxCall.args[5]
        IN  IF ~QLess(fa, Q(1, 1)) THEN mxOut = QInf
            ELSE IF QIsZero(DoseAlone(ec50_a, fa)) \/ QIsZero(DoseAlone(ec50_b, fa))
                 THEN mxOut = QInf
            ELSE mxOut = QAdd(QDiv(conc_a, DoseAlone(ec50_a, fa)),
                              QDiv(conc_b, DoseAlone(ec50_b, fa)))

ScaleFactors == { Q(1, 2), Q(2, 5), Q(1, 4), Q(1, 5), Q(2, 1), Q(4, 1), Q(5, 2), Q(5, 1) }

\* positive EC50s and 0 < fa < 1
InsideLoeweDomain(c) ==
    /\ QLess(Q(0, 1), c.args[3]) /\ QLess(Q(0, 1), c.args[4])
    /\ QLess(Q(0, 1), c.args[5]) /\ QLess(c.args[5], Q(1, 1))

\* the concentrations of call d are those of call c times s
ScaledBy(c, d, s) ==
    d.args[1] = QMul(s, c.args[1]) /\ d.args[2] = QMul(s, c.args[2])

\* C19: for positive EC50s and 0 < fa < 1, a call whose concentrations are
\* s times those of the call before it, EC50s and fa the same, returns s
\* times its CI; conc 5 and 10 with EC50 10 and 20 at fa = 0.5 give CI = 1;
\* and after a CI of 1 every s < 1 gives a CI below 1.
C19_LoeweProportionalToDoses ==
    /\ (LoeweCall(mxCall)
            /\ mxCall.args = <<Q(5, 1), Q(10, 1), Q(10, 1), Q(20, 1), Q(1, 2)>>)
        => mxOut = Q(1, 1)
    /\ (LoeweCall(mxCall) /\ mxPrev # <<>> /\ InsideLoeweDomain(mxCall))
        => \A s \in ScaleFactors :
            ScaledBy(mxPrev[1].call, mxCall, s) =>
                /\ mxOut = QMul(s, mxPrev[1].out)
                /\ (mxPrev[1].out = Q(1, 1) /\ QLess(s, Q(1, 1))) => QLess(mxOut, Q(1, 1))

\* the additive point of the test was followed by the same mixture at two
\* fifths of both concentrations, which gave CI = 2/5
C19_Witness ==
    /\ LoeweCall(mxCall) /\ mxPrev # <<>> /\ InsideLoeweDomain(mxCall)
    /\ mxPrev[1].out = Q(1, 1)
    /\ ScaledBy(mxPrev[1].call, mxCall, Q(2, 5))
    /\ mxOut = Q(2, 5)

GridCall == mxCall.fn \in {"synergy_score_bliss", "synergy_score_hsa"}

\* the grid points with an entry of curve_a at ca and of curve_b at cb
Resolvable(curve_a, curve_b, curve_ab) ==
    { i \in DOMAIN curve_ab :
        curve_ab[i].ca \in DOMAIN curve_a /\ curve_ab[i].cb \in DOMAIN curve_b }

\* observed minus expected at grid point i, in hundredths
DeltaAt(fn, curve_a, curve_b, curve_ab, i) ==
    LET ea == curve_a[curve_ab[i].ca]
        eb == curve_b[curve_ab[i].cb]
    IN  IF fn = "synergy_score_bliss"
        THEN 10 * curve_ab[i].eab - (10 * ea + 10 * eb - ea * eb)
        ELSE 10 * curve_ab[i].eab - 10 * (IF ea > eb THEN ea ELSE eb)

RECURSIVE SetSum(_, _)
SetSum(f(_), set) ==
    IF set = {} THEN 0
    ELSE LET x == CHOOSE y \in set : TRUE IN f(x) + SetSum(f, set \ {x})

\* C20: synergy_score_bliss and synergy_score_hsa count and aggregate
\* exactly the grid points (ca, cb) with an entry of curve_a at ca and of
\* curve_b at cb: n_points is their number, mean, max and min are over
\* their deltas, and with none of them mean, std, max and min are all NaN.
C20_GridScoresOverResolvablePoints ==
    GridCall =>
        LET curve_a == mxCall.args[1]
            curve_b == mxCall.args[2]
            curve_ab == mxCall.args[3]
            pts == Resolvable(curve_a, curve_b, curve_ab)
            D(i) == DeltaAt(mxCall.fn, curve_a, curve_b, curve_ab, i)
        IN  /\ mxOut.n_points = Cardinality(pts)
            /\ IF pts = {}
               THEN /\ mxOut.mean_delta = QNaN /\ mxOut.std_delta = QNaN
                    /\ mxOut.max_delta = QNaN /\ mxOut.min_delta = QNaN
               ELSE /\ mxOut.mean_delta = Q(SetSum(D, pts), Cardinality(pts))
                    /\ \E i \in pts : mxOut.max_delta = Q(D(i), 1)
                    /\ \E i \in pts : mxOut.min_delta = Q(D(i), 1)
                    /\ \A i \in pts : /\ ~QLess(mxOut.max_delta, Q(D(i), 1))
                                      /\ ~QLess(Q(D(i), 1), mxOut.min_delta)

\* a grid of two points of which only the second has both single-agent
\* effects was scored over that one point
C20_Witness ==
    /\ GridCall
    /\ Len(mxCall.args[3]) = 2
    /\ Resolvable(mxCall.args[1], mxCall.args[2], mxCall.args[3]) = {2}
    /\ mxCall.args[1] # <<>>
    /\ mxOut.n_points = 1

-----------------------------------------------------------------------------
(* mixture_ec50_shift and bliss_independence                               *)

ShiftCall == mxCall.fn = "mixture_ec50_shift"

\* C21: mixture_ec50_shift returns (NaN, "invalid") if either EC50 is zero;
\* otherwise the fold it returns is ec50_alone / ec50_combination, with
\* "potentiation" for a fold above 2, "antagonism" for a fold below 0.5 and
\* "no_shift" for every fold from 0.5 to 2, both end points included.
C21_Ec50ShiftFoldAndLabel ==
    ShiftCall =>
        LET alone == mxCall.args[1]
            combination == mxCall.args[2]
            fold == mxOut[1]
            interp == mxOut[2]
        IN  IF QIsZero(alone) \/ QIsZero(combination)
            THEN mxOut = <<QNaN, "invalid">>
            ELSE /\ (QIsNum(alone) /\ QIsNum(combination)) =>
                        (QIsNum(fold) /\ QMul(fold, combination) = alone)
                 /\ QLess(Q(2, 1), fold) => interp = "potentiation"
                 /\ QLess(fold, Q(1, 2)) => interp = "antagonism"
                 /\ (QIsNum(fold) /\ ~QLess(fold, Q(1, 2)) /\ ~QLess(Q(2, 1), fold)) =>
                        interp = "no_shift"

\* a fold of exactly 2 and one of exactly 0.5 have been labelled
C21_Witness ==
    /\ ShiftCall
    /\ mxOut[1] \in {Q(2, 1), Q(1, 2)}
    /\ mxOut[2] = "no_shift"

BlissCall == mxCall.fn = "bliss_independence"

\* the effect e, given in tenths
Tenths(e) == Q(e, 10)

\* C22: bliss_independence(ea, eb) is ea + eb - ea*eb; it is symmetric, maps
\* (0,0) to 0, (1,1) to 1 and (0.5,0.5) to 0.75, and for ea and eb in [0,1]
\* the result is in [0,1].
C22_BlissFormulaSymmetricBounded ==
    BlissCall =>
        LET ea == mxCall.args[1]
            eb == mxCall.args[2]
            out == Q(mxOut, 100)
        IN  /\ out = QSub(QAdd(Tenths(ea), Tenths(eb)), QMul(Tenths(ea), Tenths(eb)))
            /\ \A i \in DOMAIN mxPrev :
                    mxPrev[i].call.args = <<eb, ea>> => mxPrev[i].out = mxOut
            /\ (ea = 0 /\ eb = 0) => out = Q(0, 1)
            /\ (ea = 10 /\ eb = 10) => out = Q(1, 1)
            /\ (ea = 5 /\ eb = 5) => out = Q(3, 4)
            /\ (ea \in 0..10 /\ eb \in 0..10) =>
                    (~QLess(out, Q(0, 1)) /\ ~QLess(Q(1, 1), out))

\* bliss_independence(0.3, 0.4) after bliss_independence(0.4, 0.3)
C22_Witness ==
    /\ BlissCall
    /\ mxCall.args = <<3, 4>>
    /\ mxPrev # <<>>
    /\ mxOut = 58

-----------------------------------------------------------------------------
(* four_pl                                                                 *)

\* C23: for ec50 > 0 and hill > 0, four_pl at x = ec50 is (top + bottom) / 2,
\* whatever top, bottom and hill are.
C23_FourPlMidpointAtEc50 ==
    plCall.fn = "four_pl" =>
        LET x == plCall.args[1]
            top == plCall.args[2]
            bottom == plCall.args[3]
            ec50 == plCall.args[4]
            hill == plCall.args[5]
        IN  (x = ec50 /\ QLess(Q(0, 1), ec50) /\ QLess(Q(0, 1), hill)) =>
                plOut = QDiv(QAdd(top, bottom), Q(2, 1))

\* four_pl at x = ec50 = 10 with hill 1/2 on a falling curve
C23_Witness ==
    /\ plCall.fn = "four_pl"
    /\ plCall.args = <<Q(10, 1), Q(10, 1), Q(100, 1), Q(10, 1), Q(1, 2)>>
    /\ plOut = Q(55, 1)

-----------------------------------------------------------------------------
(* kg.py traversals                                                        *)

\* C24: neighbors_by_type and edges_by_type reject a direction outside
\* {out, in, both} with an invalid-direction error instead of returning.
C24_InvalidDirectionRejected ==
    (kgCall.fn \in {"neighbors_by_type", "edges_by_type"}
        /\ kgCall.direction \notin {"out", "in", "both"}) =>
            (kgOut.kind = "raise" /\ kgOut.exc = "ValueError")

-----------------------------------------------------------------------------
(* bootstrap_zip: the subsets of a resample                                *)

\* how many of the three masks of the loop body select the point pt
MasksSelecting(pt) ==
    (IF MaskA(pt) THEN 1 ELSE 0) + (IF MaskB(pt) THEN 1 ELSE 0)
        + (IF MaskCombo(pt) THEN 1 ELSE 0)

\* C25: in each iteration the subsets A-alone (conc_b = 0), B-alone
\* (conc_a = 0) and combination (both > 0) partition the resample: every
\* resampled triple with non-negative concentrations is in exactly one of
\* them; each resampled triple is one of the original triples, kept whole,
\* and a resample has n triples.
C25_MasksPartitionResample ==
    \A k \in DOMAIN bzIdx :
        /\ Len(Resample(k)) = Len(bzData)
        /\ \A i \in DOMAIN bzIdx[k] :
            /\ \E j \in DOMAIN bzData : Resample(k)[i] = bzData[j]
            /\ (Resample(k)[i].ca >= 0 /\ Resample(k)[i].cb >= 0) =>
                    MasksSelecting(Resample(k)[i]) = 1

\* C25, amended: every resampled triple with non-negative concentrations is
\* in at least one of the three subsets; the combination subset shares no
\* triple with the other two; a triple is in both A-alone and B-alone exactly
\* when both its concentrations are 0; each resampled triple is one of the
\* original triples, kept whole, and a resample has n triples.
C25_MasksCoverResample ==
    \A k \in DOMAIN bzIdx :
        /\ Len(Resample(k)) = Len(bzData)
        /\ \A i \in DOMAIN bzIdx[k] :
            \A pt \in { Resample(k)[i] } :
                /\ \E j \in DOMAIN bzData : pt = bzData[j]
                /\ (pt.ca >= 0 /\ pt.cb >= 0) =>
                    /\ MasksSelecting(pt) >= 1
                    /\ MaskCombo(pt) => (~MaskA(pt) /\ ~MaskB(pt))
                    /\ (MaskA(pt) /\ MaskB(pt)) <=> (pt.ca = 0 /\ pt.cb = 0)

\* a resample holding a control, an A-alone and a combination triple
C25_Witness ==
    \E k \in DOMAIN bzIdx :
        /\ \E i \in DOMAIN bzIdx[k] : Resample(k)[i].ca = 0 /\ Resample(k)[i].cb = 0
        /\ \E i \in DOMAIN bzIdx[k] : Resample(k)[i].ca > 0 /\ Resample(k)[i].cb = 0
        /\ \E i \in DOMAIN bzIdx[k] : Resample(k)[i].ca > 0 /\ Resample(k)[i].cb > 0

-----------------------------------------------------------------------------
(* bootstrap_zip on data without one of the three kinds of point           *)

\* the input has no point with conc_b = 0, none with conc_a = 0, or none
\* with both concentrations above 0
LacksSubset(d) ==
    \/ \A i \in DOMAIN d : ~MaskA(d[i])
    \/ \A i \in DOMAIN d : ~MaskB(d[i])
    \/ \A i \in DOMAIN d : ~MaskCombo(d[i])

\* np.mean, np.percentile or np.std of an array of 0.0 only: 0.0
OverZeros(aggregate, name, n) ==
    /\ aggregate[1] = name
    /\ Len(aggregate[Len(aggregate)]) = n
    /\ \A k \in DOMAIN aggregate[Len(aggregate)] : aggregate[Len(aggregate)][k] = ZeroScore

\* C28: when the input has no point with conc_b = 0, or none with
\* conc_a = 0, or none with both concentrations above 0, every iteration
\* scores 0 and the mean, both percentiles and the standard deviation
\* returned are those of n_boot zeros, that is 0, for every seed and n_boot.
C28_MissingSubsetScoresZero ==
    (bzPc # "idle" /\ LacksSubset(bzData)) =>
        /\ \A k \in DOMAIN bzScores : bzScores[k] = ZeroScore
        /\ bzPc = "done" =>
            /\ OverZeros(bzResult.zip_mean, "mean", bzArgs.n_boot)
            /\ OverZeros(bzResult.zip_ci_low, "percentile", bzArgs.n_boot)
            /\ OverZeros(bzResult.zip_ci_high, "percentile", bzArgs.n_boot)
            /\ OverZeros(bzResult.zip_std, "std", bzArgs.n_boot)

\* a call returned on data without a combination point, after a resample
\* that had four points for either marginal fit
C28_Witness ==
    /\ bzPc = "done"
    /\ \A i \in DOMAIN bzData : ~MaskCombo(bzData[i])
    /\ \E k \in DOMAIN bzIdx : AAlone(Resample(k)) >= 4 /\ BAlone(Resample(k)) >= 4
    /\ OverZeros(bzResult.zip_mean, "mean", bzArgs.n_boot)

-----------------------------------------------------------------------------
(* fit_marginal when curve_fit fails                                       *)

\* m is a median of v: at most half of the entries lie on either side of it
IsMedian(m, v) ==
    /\ 2 * Cardinality({ i \in DOMAIN v : QLess(Q(v[i], 1), m) }) <= Len(v)
    /\ 2 * Cardinality({ i \in DOMAIN v : QLess(m, Q(v[i], 1)) }) <= Len(v)

\* lo and hi are the smallest and the largest entry of v
IsExtremes(lo, hi, v) ==
    /\ \E i \in DOMAIN v : lo = Q(v[i], 1)
    /\ \E i \in DOMAIN v : hi = Q(v[i], 1)
    /\ \A i \in DOMAIN v : ~QLess(Q(v[i], 1), lo) /\ ~QLess(hi, Q(v[i], 1))

\* the conc_a and effect (agent "a") or conc_b and effect (agent "b") of the
\* points pts
ConcsOf(pts, agent) == [i \in DOMAIN pts |-> IF agent = "a" THEN pts[i].ca ELSE pts[i].cb]
RespsOf(pts) == [i \in DOMAIN pts |-> pts[i].eff]

\* C29: when the optimizer fails fit_marginal does not raise: it returns the
\* initial guess (min and max response, median concentration, hill 1) with
\* R2 = 0.0; a bootstrap_zip iteration whose marginal fits fail is scored
\* from the initial guesses on its A-alone and its B-alone points, not with
\* 0 and not with an error.
C29_FitFailureFallsBackToGuess ==
    bzSolver = "fail" =>
        /\ (fmCall.made /\ fmCall.resps # <<>>) =>
            /\ fmOut.kind = "return"
            /\ fmOut.r2 = Q(0, 1)
            /\ fmOut.params = <<"p0", fmCall.concs, fmCall.resps>>
            /\ Len(fmOut.values) = 4
            /\ IsExtremes(fmOut.values[1], fmOut.values[2], fmCall.resps)
            /\ IsMedian(fmOut.values[3], fmCall.concs)
            /\ fmOut.values[4] = Q(1, 1)
        /\ \A k \in DOMAIN bzScores :
            ~Degenerate(Resample(k)) =>
                /\ bzScores[k][1] = "mean_delta"
                /\ bzScores[k][3] = <<"p0", ConcsOf(SelectSeq(Resample(k), MaskA), "a"),
                                      RespsOf(SelectSeq(Resample(k), MaskA))>>
                /\ bzScores[k][4] = <<"p0", ConcsOf(SelectSeq(Resample(k), MaskB), "b"),
                                      RespsOf(SelectSeq(Resample(k), MaskB))>>

\* fit_marginal failed on two controls and two A-alone points and returned
\* the guess (0, 50, 5, 1) with R2 = 0
C29_Witness ==
    /\ bzSolver = "fail"
    /\ fmCall.made
    /\ fmCall.concs = <<0, 0, 10, 10>>
    /\ fmOut.kind = "return"
    /\ fmOut.values = <<Q(0, 1), Q(50, 1), Q(5, 1), Q(1, 1)>>
    /\ fmOut.r2 = Q(0, 1)

-----------------------------------------------------------------------------
(* The peak matching of _cosine_similarity                                 *)

\* the peaks of spectrum 2 still unmatched when the p-th match was made
UnmatchedAt(p) == DOMAIN csCall.mz2 \ { csMatched[q][2] : q \in 1..(p - 1) }

\* C27: the matching is one-to-one, every matched pair is within the
\* tolerance, and the peak chosen for a peak of spectrum 1 is at minimum
\* m/z distance among the peaks of spectrum 2 unmatched at that step; when
\* either spectrum has no peaks the score is 0.
C27_GreedyMatchingOneToOneClosest ==
    csCall.fn = "_cosine_similarity" =>
        /\ \A p, q \in DOMAIN csMatched :
            p # q => (csMatched[p][1] # csMatched[q][1] /\ csMatched[p][2] # csMatched[q][2])
        /\ \A p \in DOMAIN csMatched :
            /\ csMatched[p][1] \in DOMAIN csCall.mz1
            /\ csMatched[p][2] \in UnmatchedAt(p)
            /\ Dist(csCall.mz1[csMatched[p][1]], csCall.mz2[csMatched[p][2]]) <= csCall.tol
            /\ \A k \in UnmatchedAt(p) :
                Dist(csCall.mz1[csMatched[p][1]], csCall.mz2[csMatched[p][2]])
                    <= Dist(csCall.mz1[csMatched[p][1]], csCall.mz2[k])
        /\ (Len(csCall.mz1) = 0 \/ Len(csCall.mz2) = 0) => csOut = Score(0, 1)

\* a peak was matched to a later, closer peak although an earlier unmatched
\* one was within the tolerance too
C27_Witness ==
    /\ csCall.fn = "_cosine_similarity"
    /\ \E p \in DOMAIN csMatched :
        \E k \in UnmatchedAt(p) :
            /\ k < csMatched[p][2]
            /\ Dist(csCall.mz1[csMatched[p][1]], csCall.mz2[k]) <= csCall.tol
            /\ Dist(csCall.mz1[csMatched[p][1]], csCall.mz2[csMatched[p][2]])
                    < Dist(csCall.mz1[csMatched[p][1]], csCall.mz2[k])

=============================================================================
